---- MODULE Spec2Model ----
(***************************************************************************)
(* Two-Flags pawn chess: the position/rules model of twoflags/game.py and  *)
(* the iterative-deepening alpha-beta search of twoflags/agents/ab_agent.py*)
(*                                                                         *)
(* Representation.  A square is an index 0..63 (rank-major).  A Python     *)
(* Optional[x] is a set holding at most one element: {} is None and {x}    *)
(* is the value x.  A Move is a record [src, dst, is_ep, is_double].  A    *)
(* Position is a record [white, black, turn, ep_target, last_move]; the    *)
(* field last_move is the attribute that apply_move_fixed attaches to the  *)
(* positions it builds, and it is {} on every position that does not       *)
(* carry the attribute.                                                    *)
(***************************************************************************)
EXTENDS Integers, Sequences, FiniteSets, TLC

VARIABLES
    pos,        \* the caller's current Position
    prev,       \* Optional[Position]: the position the last apply_move was given
    mv,         \* Optional[Move]: the move the last apply_move was given
    ply,        \* number of apply_move calls made so far
    TT,         \* the transposition table (module global of ab_agent)
    NODES,      \* node counter (module global)
    TT_HITS,    \* probe-hit counter (module global)
    TT_STORES,  \* store counter (module global)
    clock,      \* readings of the clock still before the deadline
    pc,         \* where the current call of choose_move_iterdeep stands
    cur_depth,  \* local `depth` of choose_move_iterdeep
    best,       \* local `best` of choose_move_iterdeep (Optional[Move])
    max_depth,  \* argument max_depth of choose_move_iterdeep
    result,     \* Optional[Move]: what choose_move_iterdeep returned
    TT_others,  \* len(TT) less the entries TT shows: the number of entries
                \* under keys that no operation of the run names
    op,         \* the last direct call of a function and what it gave; in
                \* a run of client.main, the last line received and what
                \* was sent for it
    heap        \* the set objects and Position objects of a run that follows
                \* references: sets[r] is the content of the set object r,
                \* objs[o] the fields of the Position object o; in a run of
                \* client.main, the objects main holds (board, my_side,
                \* time_left_sec, server_uses_promo, args)

game == <<pos, prev, mv, ply>>

table == <<TT_others, op, heap>>

search ==
    <<TT, NODES, TT_HITS, TT_STORES, clock, pc, cur_depth, best, max_depth, result,
      TT_others, op, heap>>

vars ==
    <<pos, prev, mv, ply, TT, NODES, TT_HITS, TT_STORES, clock, pc, cur_depth,
      best, max_depth, result, TT_others, op, heap>>

\* Bounds of the model.
MaxPly == 3
MaxPawns == 2
MaxRootPly == 1
MaxTicks == 10
MaxDepth == 2
MaxKey == 1
MaxTableDepth == 1
MaxOps == 2
MaxTextFile == 2
MaxTokens == 2
MaxTimeMs == 13000
MaxObjects == 3
MaxGamePly == 1
MaxDeepen == 6
MaxLanePly == 12
MaxLines == 3

Squares == 0 .. 63
Colors == {"W", "B"}

\* ------------------------------------------------------------------------
\* Square helpers (game.py)
\* ------------------------------------------------------------------------
file_of(sq) == sq % 8

rank_of(sq) == (sq \div 8) + 1

sq_index(file_idx, rank) == (rank - 1) * 8 + file_idx

abs(x) == IF x < 0 THEN 0 - x ELSE x

\* sorted(S) for a set of squares: its elements in ascending order.
sorted(S) ==
    LET InS(sq) == sq \in S
    IN  SelectSeq([i \in 1 .. 64 |-> i - 1], InS)

Range(s) == {s[i] : i \in 1 .. Len(s)}

\* ------------------------------------------------------------------------
\* Move + Position (game.py)
\* ------------------------------------------------------------------------
Move(src, dst, is_ep, is_double) ==
    [src |-> src, dst |-> dst, is_ep |-> is_ep, is_double |-> is_double]

Position(white, black, turn, ep_target) ==
    [white |-> white, black |-> black, turn |-> turn,
     ep_target |-> ep_target, last_move |-> {}]

initial ==
    Position({sq_index(f, 2) : f \in 0 .. 7}, {sq_index(f, 7) : f \in 0 .. 7},
             "W", {})

occupied(p) == p.white \cup p.black

\* ------------------------------------------------------------------------
\* generate_moves (game.py)
\* ------------------------------------------------------------------------
fwd_of(turn) == IF turn = "W" THEN 8 ELSE 0 - 8

start_rank_of(turn) == IF turn = "W" THEN 2 ELSE 7

cap_deltas_of_mover_view(turn) == IF turn = "W" THEN <<7, 9>> ELSE <<0 - 7, 0 - 9>>

\* cap_deltas and ep_deltas are the same pair: left then right.
cap_deltas_of(turn) == IF turn = "W" THEN <<7, 9>> ELSE <<0 - 9, 0 - 7>>

InBoard(sq) == 0 <= sq /\ sq < 64

ForwardMoves_single_only(p, src) ==
    IF InBoard(src + fwd_of(p.turn)) /\ (src + fwd_of(p.turn)) \notin occupied(p)
    THEN <<Move(src, src + fwd_of(p.turn), FALSE, FALSE)>>
    ELSE <<>>

\* the `forward 1` / `forward 2 from start` block for the pawn on src
ForwardMoves(p, src) ==
    LET occ == occupied(p)
        fwd == fwd_of(p.turn)
        dst1 == src + fwd
        dst2 == src + 2 * fwd
        mid == src + fwd
    IN  IF InBoard(dst1) /\ dst1 \notin occ
        THEN <<Move(src, dst1, FALSE, FALSE)>> \o
             (IF rank_of(src) = start_rank_of(p.turn)
                 /\ InBoard(dst2) /\ mid \notin occ /\ dst2 \notin occ
              THEN <<Move(src, dst2, FALSE, TRUE)>>
              ELSE <<>>)
        ELSE <<>>

DiagonalStepOk_wraps(src, dst) == InBoard(dst)

\* the guard of one diagonal step: on the board and onto an adjacent file
DiagonalStepOk(src, dst) ==
    InBoard(dst) /\ abs(file_of(dst) - file_of(src)) = 1

\* the `captures` loop for the pawn on src
CaptureMoves(p, src) ==
    LET opp == IF p.turn = "W" THEN p.black ELSE p.white
        deltas == cap_deltas_of(p.turn)
        One(d) == IF DiagonalStepOk(src, src + d) /\ (src + d) \in opp
                  THEN <<Move(src, src + d, FALSE, FALSE)>>
                  ELSE <<>>
    IN  One(deltas[1]) \o One(deltas[2])

\* the `en passant` block for the pawn on src
EnPassantMoves(p, src) ==
    LET occ == occupied(p)
        opp == IF p.turn = "W" THEN p.black ELSE p.white
        fwd == fwd_of(p.turn)
        deltas == cap_deltas_of(p.turn)
        One(d) == IF /\ p.ep_target # {}
                      /\ p.ep_target = {src + d}
                      /\ DiagonalStepOk(src, src + d)
                      /\ ((src + d) - fwd) \in opp
                      /\ (src + d) \notin occ
                  THEN <<Move(src, src + d, TRUE, FALSE)>>
                  ELSE <<>>
    IN  One(deltas[1]) \o One(deltas[2])

PawnMoves(p, src) ==
    ForwardMoves(p, src) \o CaptureMoves(p, src) \o EnPassantMoves(p, src)

\* list(generate_moves(pos)): the moves in the order they are yielded
generate_moves(p) ==
    LET pawns == sorted(IF p.turn = "W" THEN p.white ELSE p.black)
        upto[i \in 0 .. Len(pawns)] ==
            IF i = 0 THEN <<>> ELSE upto[i - 1] \o PawnMoves(p, pawns[i])
    IN  upto[Len(pawns)]

\* ------------------------------------------------------------------------
\* winner (game.py)
\* ------------------------------------------------------------------------
winner_no_moves_first(p) ==
    IF p.white # {} /\ p.black # {} /\ generate_moves(p) = <<>>
    THEN (IF p.turn = "W" THEN {"B"} ELSE {"W"})
    ELSE IF \E sq \in p.white : sq \div 8 = 7 THEN {"W"}
    ELSE IF \E sq \in p.black : sq \div 8 = 0 THEN {"B"}
    ELSE IF p.black = {} THEN {"W"}
    ELSE IF p.white = {} THEN {"B"}
    ELSE {}

winner_no_wipeout(p) ==
    IF \E sq \in p.white : sq \div 8 = 7 THEN {"W"}
    ELSE IF \E sq \in p.black : sq \div 8 = 0 THEN {"B"}
    ELSE IF generate_moves(p) = <<>>
         THEN (IF p.turn = "W" THEN {"B"} ELSE {"W"})
    ELSE {}

winner_stalemate_is_draw(p) ==
    IF \E sq \in p.white : sq \div 8 = 7 THEN {"W"}
    ELSE IF \E sq \in p.black : sq \div 8 = 0 THEN {"B"}
    ELSE IF p.black = {} THEN {"W"}
    ELSE IF p.white = {} THEN {"B"}
    ELSE {}

winner_black_present(p) ==
    IF \E sq \in p.white : sq \div 8 = 7 THEN {"W"}
    ELSE IF \E sq \in p.black : sq \div 8 = 0 THEN {"B"}
    ELSE IF p.black # {} THEN {"W"}
    ELSE IF p.white = {} THEN {"B"}
    ELSE IF generate_moves(p) = <<>>
         THEN (IF p.turn = "W" THEN {"B"} ELSE {"W"})
    ELSE {}

winner(p) ==
    IF \E sq \in p.white : sq \div 8 = 7 THEN {"W"}
    ELSE IF \E sq \in p.black : sq \div 8 = 0 THEN {"B"}
    ELSE IF p.black = {} THEN {"W"}
    ELSE IF p.white = {} THEN {"B"}
    ELSE IF generate_moves(p) = <<>>
         THEN (IF p.turn = "W" THEN {"B"} ELSE {"W"})
    ELSE {}

\* ------------------------------------------------------------------------
\* apply_move (game.py)
\* ------------------------------------------------------------------------
\* The opponent's squares after the move: `if mv.dst in opp: opp.remove(mv.dst)`
\* and nothing else (COMPAT MODE: the pawn an en-passant move passes is kept).
OppAfterMove_removes_passed(opp, m, fwd) ==
    IF m.is_ep THEN opp \ {m.dst, m.dst - fwd} ELSE opp \ {m.dst}

OppAfterMove_keeps_captured(opp, m, fwd) == opp

OppAfterMove(opp, m, fwd) == opp \ {m.dst}

\* The en-passant target after the move: `newp.ep_target = None`, then
\* `if mv.is_double: newp.ep_target = mv.src + fwd`.
EpAfterMove_not_cleared(old, m, fwd) ==
    IF m.is_double THEN {m.src + fwd} ELSE old

EpAfterMove_at_destination(old, m, fwd) == IF m.is_double THEN {m.dst} ELSE {}

EpAfterMove(old, m, fwd) == IF m.is_double THEN {m.src + fwd} ELSE {}

apply_move(p, m) ==
    LET fwd == fwd_of(p.turn)
        mover == IF p.turn = "W" THEN p.white ELSE p.black
        opp == IF p.turn = "W" THEN p.black ELSE p.white
        mover2 == (mover \ {m.src}) \cup {m.dst}
        opp2 == OppAfterMove(opp, m, fwd)
    IN  [white |-> IF p.turn = "W" THEN mover2 ELSE opp2,
         black |-> IF p.turn = "W" THEN opp2 ELSE mover2,
         turn |-> IF p.turn = "W" THEN "B" ELSE "W",
         ep_target |-> EpAfterMove(p.ep_target, m, fwd),
         last_move |-> {}]

\* ------------------------------------------------------------------------
\* Setup import: the positions Position.from_setup_tokens builds from at
\* most MaxPawns tokens naming distinct squares, for either side to move.
\* ------------------------------------------------------------------------
\* A token <Color><File><Rank> is coded as an index 0..127: 0..63 the white
\* tokens by square, 64..127 the black ones.  The setups enumerated place
\* their pawns on the two files at either edge of the board (a, b, g, h),
\* on any rank.
SetupFiles == {0, 1, 6, 7}

Tokens == {t \in 0 .. 127 : file_of(t % 64) \in SetupFiles}

TokenSets ==
    LET grow[k \in 0 .. MaxPawns] ==
            IF k = 0 THEN {{}}
            ELSE grow[k - 1] \cup
                 {s \cup {t} : s \in {x \in grow[k - 1] : Cardinality(x) = k - 1},
                               t \in Tokens}
    IN  grow[MaxPawns]

from_setup_tokens(tokens, turn) ==
    Position({t \in tokens : t < 64}, {t - 64 : t \in {x \in tokens : x >= 64}},
             turn, {})

\* ------------------------------------------------------------------------
\* Scores (ab_agent.py)
\* ------------------------------------------------------------------------
\* A score is a Python int.  The search only compares scores, and its
\* sentinels (10**12, 10**18) are beyond the integers TLC computes with, so
\* a score is written <<big, small>> for big * 10**12 + small; every score
\* of the search has big = 0 (a static evaluation, below 10**12 in size) or
\* small = 0 (a sentinel), and on those the order below is the order of the
\* integers.
Heuristic(e) == <<0, e>>

WIN_SCORE == <<1, 0>>                      \* 10**12

LOSS_SCORE == <<0 - 1, 0>>                 \* -10**12

POS_INF == <<1000000, 0>>                  \* 10**18

NEG_INF == <<0 - 1000000, 0>>              \* -10**18

ScoreLT(a, b) == a[1] < b[1] \/ (a[1] = b[1] /\ a[2] < b[2])

ScoreLE(a, b) == a = b \/ ScoreLT(a, b)

ScoreMax(a, b) == IF ScoreLT(a, b) THEN b ELSE a

ScoreMin(a, b) == IF ScoreLT(b, a) THEN b ELSE a

\* ------------------------------------------------------------------------
\* Transposition table (ab_agent.py)
\* ------------------------------------------------------------------------
EXACT == 0
LOWER == 1
UPPER == 2

TT_MAX_SIZE == 200000

TTEntry(depth, value, flag, best_move) ==
    [depth |-> depth, value |-> value, flag |-> flag, best_move |-> best_move]

\* The process-wide search state: the table TT (a function from keys to
\* entries), the counters, and the clock.  clock is the number of readings of
\* time.perf_counter() that still fall before the deadline: the counter is
\* monotonic, so a reading at or past the deadline is followed only by such
\* readings.  NoDeadline stands for a deadline no reading of the call reaches.
NoDeadline == 0 - 1

\* no function has been called directly; n counts the direct calls
NoOp == [kind |-> "none", n |-> 0]

\* no object is followed
NoHeap == [sets |-> <<>>, objs |-> <<>>]

EmptyTT == <<>>

Expired(m) == m.clock = 0

\* one reading of time.perf_counter() that fell before the deadline
Tick(m) == [m EXCEPT !.clock = IF m.clock > 0 THEN m.clock - 1 ELSE m.clock]

\* _extract_ep_like_state: the first attribute of the probed names that the
\* position has and that is not None: ep_target, then last_move.
_extract_ep_like_state(p) ==
    IF p.ep_target # {} THEN p.ep_target
    ELSE IF p.last_move # {} THEN p.last_move
    ELSE {}

\* zobrist_key XORs one 64-bit constant per occupied (colour, square), Z_TURN
\* for white to move, and a digest of the extra state.  The key is modelled
\* by what is folded in: distinct folded-in data are taken to give distinct
\* keys, and equal data give equal keys.
zobrist_key(p) ==
    LET extra == _extract_ep_like_state(p)
        x == CHOOSE e \in extra : TRUE
    IN  [white |-> p.white, black |-> p.black, white_to_move |-> (p.turn = "W"),
         extra |->
            IF extra = {} THEN [kind |-> "none", a |-> 0, b |-> 0, c |-> 0]
            ELSE IF p.ep_target # {}
                 THEN [kind |-> "ep", a |-> x, b |-> 0, c |-> 0]
            ELSE [kind |-> "lm", a |-> x.src, b |-> x.dst,
                  c |-> IF x.is_ep THEN 1 ELSE 0]]

TTGet(tt, key) == IF key \in DOMAIN tt THEN {tt[key]} ELSE {}

TTPut(tt, key, e) ==
    [k \in DOMAIN tt \cup {key} |-> IF k = key THEN e ELSE tt[k]]

\* len(TT): the entries TT shows and the others
TTLen(m) == Cardinality(DOMAIN m.TT) + m.TT_others

_tt_maybe_evict_off_by_one(m) ==
    IF TTLen(m) >= TT_MAX_SIZE
    THEN [m EXCEPT !.TT = EmptyTT, !.TT_others = 0]
    ELSE m

_tt_maybe_evict(m) ==
    IF TTLen(m) > TT_MAX_SIZE
    THEN [m EXCEPT !.TT = EmptyTT, !.TT_others = 0]
    ELSE m

StoreFlag_below_alpha(value, alpha0, beta0) ==
    IF ScoreLT(value, alpha0) THEN UPPER
    ELSE IF ScoreLE(beta0, value) THEN LOWER
    ELSE EXACT

\* the flag _tt_store gives: `if value <= alpha0 ... elif value >= beta0`
StoreFlag(value, alpha0, beta0) ==
    IF ScoreLE(value, alpha0) THEN UPPER
    ELSE IF ScoreLE(beta0, value) THEN LOWER
    ELSE EXACT

_tt_store_always(m, key, depth, value, alpha0, beta0, best_move) ==
    _tt_maybe_evict(
        [m EXCEPT
            !.TT = TTPut(m.TT, key,
                         TTEntry(depth, value, StoreFlag(value, alpha0, beta0),
                                 best_move)),
            !.TT_STORES = m.TT_STORES + 1])

_tt_store(m, key, depth, value, alpha0, beta0, best_move) ==
    LET old == TTGet(m.TT, key)
    IN  IF old = {} \/ (\A o \in old : depth >= o.depth)
        THEN _tt_maybe_evict(
                [m EXCEPT
                    !.TT = TTPut(m.TT, key,
                                 TTEntry(depth, value,
                                         StoreFlag(value, alpha0, beta0),
                                         best_move)),
                    !.TT_STORES = m.TT_STORES + 1])
        ELSE m

_tt_probe_any_depth(m, key, depth, alpha, beta) ==
    LET entry == TTGet(m.TT, key)
        e == CHOOSE o \in entry : TRUE
        hitm == [m EXCEPT !.TT_HITS = m.TT_HITS + 1]
        alpha1 == IF e.flag = LOWER THEN ScoreMax(alpha, e.value) ELSE alpha
        beta1 == IF e.flag = UPPER THEN ScoreMin(beta, e.value) ELSE beta
    IN  IF entry = {}
        THEN [m |-> m, hit |-> FALSE, alpha |-> alpha, beta |-> beta, value |-> {}]
        ELSE IF e.flag = EXACT
        THEN [m |-> hitm, hit |-> TRUE, alpha |-> alpha, beta |-> beta,
              value |-> {e.value}]
        ELSE IF ScoreLE(beta1, alpha1)
        THEN [m |-> hitm, hit |-> TRUE, alpha |-> alpha1, beta |-> beta1,
              value |-> {e.value}]
        ELSE [m |-> hitm, hit |-> TRUE, alpha |-> alpha1, beta |-> beta1,
              value |-> {}]

_tt_probe_takes_bound(m, key, depth, alpha, beta) ==
    LET entry == TTGet(m.TT, key)
        e == CHOOSE o \in entry : TRUE
        hitm == [m EXCEPT !.TT_HITS = m.TT_HITS + 1]
        alpha1 == IF e.flag = LOWER THEN e.value ELSE alpha
        beta1 == IF e.flag = UPPER THEN e.value ELSE beta
    IN  IF entry = {} \/ e.depth < depth
        THEN [m |-> m, hit |-> FALSE, alpha |-> alpha, beta |-> beta, value |-> {}]
        ELSE IF e.flag = EXACT
        THEN [m |-> hitm, hit |-> TRUE, alpha |-> alpha, beta |-> beta,
              value |-> {e.value}]
        ELSE IF ScoreLE(beta1, alpha1)
        THEN [m |-> hitm, hit |-> TRUE, alpha |-> alpha1, beta |-> beta1,
              value |-> {e.value}]
        ELSE [m |-> hitm, hit |-> TRUE, alpha |-> alpha1, beta |-> beta1,
              value |-> {}]

\* _tt_probe: the tuple (hit, alpha, beta, value) and the state after it
_tt_probe_ignores_depth(m, key, depth, alpha, beta) ==
    LET entry == TTGet(m.TT, key)
        e == CHOOSE o \in entry : TRUE
        hitm == [m EXCEPT !.TT_HITS = m.TT_HITS + 1]
        alpha1 == IF e.flag = LOWER THEN ScoreMax(alpha, e.value) ELSE alpha
        beta1 == IF e.flag = UPPER THEN ScoreMin(beta, e.value) ELSE beta
    IN  IF entry = {}
        THEN [m |-> m, hit |-> FALSE, alpha |-> alpha, beta |-> beta, value |-> {}]
        ELSE IF e.flag = EXACT
        THEN [m |-> hitm, hit |-> TRUE, alpha |-> alpha, beta |-> beta,
              value |-> {e.value}]
        ELSE IF ScoreLE(beta1, alpha1)
        THEN [m |-> hitm, hit |-> TRUE, alpha |-> alpha1, beta |-> beta1,
              value |-> {e.value}]
        ELSE [m |-> hitm, hit |-> TRUE, alpha |-> alpha1, beta |-> beta1,
              value |-> {}]

_tt_probe(m, key, depth, alpha, beta) ==
    LET entry == TTGet(m.TT, key)
        e == CHOOSE o \in entry : TRUE
        hitm == [m EXCEPT !.TT_HITS = m.TT_HITS + 1]
        alpha1 == IF e.flag = LOWER THEN ScoreMax(alpha, e.value) ELSE alpha
        beta1 == IF e.flag = UPPER THEN ScoreMin(beta, e.value) ELSE beta
    IN  IF entry = {} \/ e.depth < depth
        THEN [m |-> m, hit |-> FALSE, alpha |-> alpha, beta |-> beta, value |-> {}]
        ELSE IF e.flag = EXACT
        THEN [m |-> hitm, hit |-> TRUE, alpha |-> alpha, beta |-> beta,
              value |-> {e.value}]
        ELSE IF ScoreLE(beta1, alpha1)
        THEN [m |-> hitm, hit |-> TRUE, alpha |-> alpha1, beta |-> beta1,
              value |-> {e.value}]
        ELSE [m |-> hitm, hit |-> TRUE, alpha |-> alpha1, beta |-> beta1,
              value |-> {}]

\* ------------------------------------------------------------------------
\* Search (ab_agent.py)
\* ------------------------------------------------------------------------
apply_move_fixed(p, m) ==
    LET mover == p.turn
        new_pos == apply_move(p, m)
        cap_sq == IF mover = "W" THEN m.dst - 8 ELSE m.dst + 8
    IN  [new_pos EXCEPT
            !.black = IF m.is_ep /\ mover = "W" THEN @ \ {cap_sq} ELSE @,
            !.white = IF m.is_ep /\ mover # "W" THEN @ \ {cap_sq} ELSE @,
            !.last_move = {m}]

sum_prog_same_for_black(S, colour) ==
    LET s == sorted(S)
        upto[i \in 0 .. Len(s)] ==
            IF i = 0 THEN 0 ELSE upto[i - 1] + ((s[i] \div 8) + 1)
    IN  upto[Len(s)]

sum_prog_by_square(S, colour) ==
    LET s == sorted(S)
        term(sq) == IF colour = "W" THEN sq + 1 ELSE 9 - (sq + 1)
        upto[i \in 0 .. Len(s)] ==
            IF i = 0 THEN 0 ELSE upto[i - 1] + term(s[i])
    IN  upto[Len(s)]

\* `sum(((sq >> 3) + 1) for sq in pos.white)` for colour "W" and
\* `sum((9 - ((sq >> 3) + 1)) for sq in pos.black)` for colour "B"
sum_prog(S, colour) ==
    LET s == sorted(S)
        term(sq) == IF colour = "W" THEN (sq \div 8) + 1
                    ELSE 9 - ((sq \div 8) + 1)
        upto[i \in 0 .. Len(s)] ==
            IF i = 0 THEN 0 ELSE upto[i - 1] + term(s[i])
    IN  upto[Len(s)]

evaluate(p) ==
    LET w == Cardinality(p.white)
        b == Cardinality(p.black)
        w_prog == sum_prog(p.white, "W")
        b_prog == sum_prog(p.black, "B")
    IN  100 * (w - b) + 3 * (w_prog - b_prog)

_is_capture(p, m) ==
    LET opp == IF p.turn = "W" THEN p.black ELSE p.white
    IN  m.is_ep \/ m.dst \in opp

CapturesFirst_reversed(p, moves) ==
    LET cap(m) == _is_capture(p, m)
        quiet(m) == ~_is_capture(p, m)
        rev(q) == [i \in 1 .. Len(q) |-> q[Len(q) + 1 - i]]
    IN  rev(SelectSeq(moves, quiet) \o SelectSeq(moves, cap))

\* moves.sort(key=lambda m: 1 if _is_capture(pos, m) else 0, reverse=True):
\* the sort is stable, so captures come first and each group keeps its order
CapturesFirst(p, moves) ==
    LET cap(m) == _is_capture(p, m)
        quiet(m) == ~_is_capture(p, m)
    IN  SelectSeq(moves, cap) \o SelectSeq(moves, quiet)

\* moves.remove(x): the list without the first element equal to x
Remove(moves, x) ==
    LET i == CHOOSE j \in 1 .. Len(moves) :
                 moves[j] = x /\ \A k \in 1 .. j - 1 : moves[k] # x
    IN  SubSeq(moves, 1, i - 1) \o SubSeq(moves, i + 1, Len(moves))

TTMoveFirst_unchecked(tt, key, moves) ==
    LET entry == TTGet(tt, key)
        e == CHOOSE o \in entry : TRUE
        bm == CHOOSE x \in e.best_move : TRUE
        other(x) == x # bm
    IN  IF entry # {} /\ e.best_move # {}
        THEN <<bm>> \o SelectSeq(moves, other)
        ELSE moves

\* the remembered best move of TT[key], if legal here, goes to the front
TTMoveFirst(tt, key, moves) ==
    LET entry == TTGet(tt, key)
        e == CHOOSE o \in entry : TRUE
        bm == CHOOSE x \in e.best_move : TRUE
    IN  IF entry # {} /\ e.best_move # {} /\ bm \in Range(moves)
        THEN <<bm>> \o Remove(moves, bm)
        ELSE moves

OrderedMoves(tt, p) ==
    TTMoveFirst(tt, zobrist_key(p), CapturesFirst(p, generate_moves(p)))

\* The recursion of the search.  Each operator below is one stretch of
\* _alphabeta or _search_depth; a value computed once in the code and used
\* several times is handed on as an argument.
RECURSIVE _alphabeta(_, _, _, _, _)
RECURSIVE NodeLoop(_, _, _, _, _, _, _, _, _)

\* `if beta <= alpha: break`, else the next move of the loop
NodeCutoff(m, p, moves, i, depth, alpha, beta, v, best_move) ==
    IF ScoreLE(beta, alpha)
    THEN [m |-> m, v |-> v, best_move |-> best_move]
    ELSE NodeLoop(m, p, moves, i + 1, depth, alpha, beta, v, best_move)

\* `alpha = max(alpha, v)` (maximizing) or `beta = min(beta, v)` (minimizing)
NodeTighten(m, p, moves, i, depth, alpha, beta, v, best_move) ==
    IF p.turn = "W"
    THEN NodeCutoff(m, p, moves, i, depth, ScoreMax(alpha, v), beta, v, best_move)
    ELSE NodeCutoff(m, p, moves, i, depth, alpha, ScoreMin(beta, v), v, best_move)

\* `if child > v` (maximizing) or `if child < v` (minimizing):
\* `v = child; best_move = mv`; r is what the recursive call returned
NodeChild(r, p, moves, i, depth, alpha, beta, v, best_move) ==
    IF (IF p.turn = "W" THEN ScoreLT(v, r.val) ELSE ScoreLT(r.val, v))
    THEN NodeTighten(r.m, p, moves, i, depth, alpha, beta, r.val, {moves[i]})
    ELSE NodeTighten(r.m, p, moves, i, depth, alpha, beta, v, best_move)

\* the `for mv in moves` loop of _alphabeta from the i-th move on, in the
\* maximizing (white to move) or the minimizing branch; v and best_move are
\* the loop's running values
NodeLoop(m, p, moves, i, depth, alpha, beta, v, best_move) ==
    IF i > Len(moves) \/ Expired(m)
    THEN [m |-> m, v |-> v, best_move |-> best_move]
    ELSE NodeChild(_alphabeta(Tick(m), apply_move_fixed(p, moves[i]), depth - 1,
                              alpha, beta),
                   p, moves, i, depth, alpha, beta, v, best_move)

\* `_tt_store(key, depth, v, alpha0, beta0, best_move); return v`
NodeStore(lp, key, depth, alpha0, beta0) ==
    [m |-> _tt_store(lp.m, key, depth, lp.v, alpha0, beta0, lp.best_move),
     val |-> lp.v]

\* _alphabeta after the probe pr: the cutoff value, or the move loop
NodeProbed(pr, p, depth, alpha0, beta0) ==
    IF pr.value # {}
    THEN [m |-> pr.m, val |-> CHOOSE x \in pr.value : TRUE]
    ELSE IF generate_moves(p) = <<>>
    THEN [m |-> pr.m, val |-> Heuristic(evaluate(p))]
    ELSE NodeStore(NodeLoop(pr.m, p, OrderedMoves(pr.m.TT, p), 1, depth,
                            pr.alpha, pr.beta,
                            IF p.turn = "W" THEN NEG_INF ELSE POS_INF, {}),
                   zobrist_key(p), depth, alpha0, beta0)

NodeLive_depth_first(m, p, depth, alpha, beta) ==
    IF depth <= 0
    THEN [m |-> m, val |-> Heuristic(evaluate(p))]
    ELSE IF winner(p) # {}
    THEN [m |-> m, val |-> IF winner(p) = {"W"} THEN WIN_SCORE ELSE LOSS_SCORE]
    ELSE NodeProbed(_tt_probe(m, zobrist_key(p), depth, alpha, beta),
                    p, depth, alpha, beta)

\* _alphabeta after the deadline check: terminal test, depth test, probe
NodeLive(m, p, depth, alpha, beta) ==
    IF winner(p) # {}
    THEN [m |-> m, val |-> IF winner(p) = {"W"} THEN WIN_SCORE ELSE LOSS_SCORE]
    ELSE IF depth <= 0
    THEN [m |-> m, val |-> Heuristic(evaluate(p))]
    ELSE NodeProbed(_tt_probe(m, zobrist_key(p), depth, alpha, beta),
                    p, depth, alpha, beta)

\* _alphabeta after `NODES += 1`: the deadline check
NodeEntered(m, p, depth, alpha, beta) ==
    IF Expired(m)
    THEN [m |-> m, val |-> Heuristic(evaluate(p))]
    ELSE NodeLive(Tick(m), p, depth, alpha, beta)

\* _alphabeta: the value returned and the state after it
_alphabeta(m, p, depth, alpha, beta) ==
    NodeEntered([m EXCEPT !.NODES = m.NODES + 1], p, depth, alpha, beta)

RECURSIVE RootLoop(_, _, _, _, _, _, _, _, _)

\* `if beta <= alpha: break`, else the next root move
RootCutoff(m, p, moves, i, depth, alpha, beta, best_val, best_mv) ==
    IF ScoreLE(beta, alpha)
    THEN [m |-> m, best_val |-> best_val, best_mv |-> best_mv]
    ELSE RootLoop(m, p, moves, i + 1, depth, alpha, beta, best_val, best_mv)

\* `alpha = max(alpha, best_val)` or `beta = min(beta, best_val)`
RootTighten(m, p, moves, i, depth, alpha, beta, best_val, best_mv) ==
    IF p.turn = "W"
    THEN RootCutoff(m, p, moves, i, depth, ScoreMax(alpha, best_val), beta,
                    best_val, best_mv)
    ELSE RootCutoff(m, p, moves, i, depth, alpha, ScoreMin(beta, best_val),
                    best_val, best_mv)

\* `if val > best_val` (maximizing) or `if val < best_val` (minimizing):
\* `best_val, best_mv = val, mv`; r is what _alphabeta returned
RootChild(r, p, moves, i, depth, alpha, beta, best_val, best_mv) ==
    IF (IF p.turn = "W" THEN ScoreLT(best_val, r.val) ELSE ScoreLT(r.val, best_val))
    THEN RootTighten(r.m, p, moves, i, depth, alpha, beta, r.val, {moves[i]})
    ELSE RootTighten(r.m, p, moves, i, depth, alpha, beta, best_val, best_mv)

\* the `for mv in moves` loop of _search_depth from the i-th move on
RootLoop(m, p, moves, i, depth, alpha, beta, best_val, best_mv) ==
    IF i > Len(moves) \/ Expired(m)
    THEN [m |-> m, best_val |-> best_val, best_mv |-> best_mv]
    ELSE RootChild(_alphabeta(Tick(m), apply_move_fixed(p, moves[i]), depth - 1,
                              alpha, beta),
                   p, moves, i, depth, alpha, beta, best_val, best_mv)

\* `_tt_store(key, depth, best_val, alpha0, beta0, best_mv)` and the return
RootStore(lp, key, depth) ==
    [m |-> _tt_store(lp.m, key, depth, lp.best_val, NEG_INF, POS_INF, lp.best_mv),
     mv |-> lp.best_mv, val |-> lp.best_val]

\* _search_depth: the pair (move, value) and the state after it
_search_depth(m, p, depth) ==
    IF generate_moves(p) = <<>>
    THEN [m |-> m, mv |-> {}, val |-> Heuristic(evaluate(p))]
    ELSE RootStore(RootLoop(m, p, OrderedMoves(m.TT, p), 1, depth,
                            NEG_INF, POS_INF,
                            IF p.turn = "W" THEN NEG_INF ELSE POS_INF, {}),
                   zobrist_key(p), depth)

\* ------------------------------------------------------------------------
\* Actions
\* ------------------------------------------------------------------------
\* The module globals as they are when ab_agent has been imported, and the
\* locals of a call that has not started.
SearchIdle ==
    /\ TT = EmptyTT
    /\ NODES = 0
    /\ TT_HITS = 0
    /\ TT_STORES = 0
    /\ clock = NoDeadline
    /\ pc = "idle"
    /\ cur_depth = 1
    /\ best = {}
    /\ max_depth = 1
    /\ result = {}
    /\ TT_others = 0
    /\ op = NoOp
    /\ heap = NoHeap

\* The caller applies a move that generate_moves yields for its position.
Play ==
    /\ ply < MaxPly
    /\ \E m \in Range(generate_moves(pos)) :
          /\ pos' = apply_move(pos, m)
          /\ prev' = {pos}
          /\ mv' = {m}
    /\ ply' = ply + 1
    /\ UNCHANGED search

\* The same on a game that started from a setup: pawns only advance, so the
\* play ends by itself and no ply bound is needed.
PlaySetup ==
    /\ \E m \in Range(generate_moves(pos)) :
          /\ pos' = apply_move(pos, m)
          /\ prev' = {pos}
          /\ mv' = {m}
    /\ UNCHANGED ply
    /\ UNCHANGED search

\* choose_move_iterdeep(pos, time_left_sec, max_depth) up to its loop: the
\* budget is positive, and how many readings of the clock it lasts for is
\* the scheduler's choice.
Call ==
    /\ pc = "idle"
    /\ \E d \in 1 .. MaxDepth : max_depth' = d
    /\ \E c \in (0 .. MaxTicks) \cup {NoDeadline} : clock' = c
    /\ best' = {}
    /\ cur_depth' = 1
    /\ NODES' = 0
    /\ pc' = "loop"
    /\ UNCHANGED <<TT, TT_HITS, TT_STORES, result>>
    /\ UNCHANGED game
    /\ UNCHANGED table

\* `if time.perf_counter() >= deadline: break`
DeadlineBreak ==
    /\ pc = "loop"
    /\ cur_depth <= max_depth
    /\ clock = 0
    /\ pc' = "select"
    /\ UNCHANGED <<TT, NODES, TT_HITS, TT_STORES, clock, cur_depth, best, max_depth, result>>
    /\ UNCHANGED game
    /\ UNCHANGED table

\* the module globals and the clock, as the record the search operators
\* hand on
Globals ==
    [TT |-> TT, clock |-> clock, NODES |-> NODES,
     TT_HITS |-> TT_HITS, TT_STORES |-> TT_STORES, TT_others |-> TT_others]

\* `mv, _ = _search_depth(...)`, `if mv is not None: best = mv`; r is what
\* _search_depth returned
SearchDepthDone(r) ==
    /\ TT' = r.m.TT
    /\ clock' = r.m.clock
    /\ NODES' = r.m.NODES
    /\ TT_HITS' = r.m.TT_HITS
    /\ TT_STORES' = r.m.TT_STORES
    /\ TT_others' = r.m.TT_others
    /\ best' = IF r.mv # {} THEN r.mv ELSE best

SearchDepth_past_deadline ==
    /\ pc = "loop"
    /\ cur_depth <= max_depth
    /\ SearchDepthDone(_search_depth(Tick(Globals), pos, cur_depth))
    /\ cur_depth' = cur_depth + 1
    /\ UNCHANGED <<pc, max_depth, result, op, heap>>
    /\ UNCHANGED game

\* one pass of the `while depth <= max_depth` loop that runs _search_depth
SearchDepth ==
    /\ pc = "loop"
    /\ cur_depth <= max_depth
    /\ clock # 0
    /\ SearchDepthDone(_search_depth(Tick(Globals), pos, cur_depth))
    /\ cur_depth' = cur_depth + 1
    /\ UNCHANGED <<pc, max_depth, result, op, heap>>
    /\ UNCHANGED game

\* the loop condition `depth <= max_depth` fails
DepthsDone ==
    /\ pc = "loop"
    /\ cur_depth > max_depth
    /\ pc' = "select"
    /\ UNCHANGED <<TT, NODES, TT_HITS, TT_STORES, clock, cur_depth, best, max_depth, result>>
    /\ UNCHANGED game
    /\ UNCHANGED table

\* `return best`
ReturnBest ==
    /\ pc = "select"
    /\ best # {}
    /\ result' = best
    /\ pc' = "returned"
    /\ UNCHANGED <<TT, NODES, TT_HITS, TT_STORES, clock, cur_depth, best, max_depth>>
    /\ UNCHANGED game
    /\ UNCHANGED table

ReturnFirst_arbitrary ==
    /\ pc = "select"
    /\ best = {}
    /\ result' = IF generate_moves(pos) # <<>> THEN {generate_moves(pos)[1]}
                 ELSE {Move(0, 0, FALSE, FALSE)}
    /\ pc' = "returned"
    /\ UNCHANGED <<TT, NODES, TT_HITS, TT_STORES, clock, cur_depth, best, max_depth>>
    /\ UNCHANGED game
    /\ UNCHANGED table

\* `if best is None: ... return moves[0]`
ReturnFirst ==
    /\ pc = "select"
    /\ best = {}
    /\ generate_moves(pos) # <<>>
    /\ result' = {generate_moves(pos)[1]}
    /\ pc' = "returned"
    /\ UNCHANGED <<TT, NODES, TT_HITS, TT_STORES, clock, cur_depth, best, max_depth>>
    /\ UNCHANGED game
    /\ UNCHANGED table

\* `if not moves: raise RuntimeError("No legal moves.")`
RaiseNoLegalMoves ==
    /\ pc = "select"
    /\ best = {}
    /\ generate_moves(pos) = <<>>
    /\ pc' = "raised"
    /\ UNCHANGED <<TT, NODES, TT_HITS, TT_STORES, clock, cur_depth, best, max_depth, result>>
    /\ UNCHANGED game
    /\ UNCHANGED table

Init ==
    /\ pos = initial
    /\ prev = {}
    /\ mv = {}
    /\ ply = 0
    /\ SearchIdle

Next == Play

Spec == Init /\ [][Next]_vars

\* the token of a pawn, by colour, file index and rank
Tok(colour, file_idx, rank) ==
    (IF colour = "W" THEN 0 ELSE 64) + sq_index(file_idx, rank)

\* setups of three pawns in which one pawn has a forward move and a capture
\* on either side, or gets a capture and an en-passant capture
OrderSetups ==
    { {Tok("W", 1, 4), Tok("B", 0, 5), Tok("B", 2, 5)},
      {Tok("B", 1, 5), Tok("W", 0, 4), Tok("W", 2, 4)},
      {Tok("W", 1, 5), Tok("B", 0, 7), Tok("B", 2, 6)},
      {Tok("B", 1, 4), Tok("W", 0, 3), Tok("W", 2, 2)} }

InitSetup ==
    /\ \E tokens \in TokenSets \cup OrderSetups, turn \in Colors :
          /\ \A t \in tokens : t < 64 => (t + 64) \notin tokens
          /\ pos = from_setup_tokens(tokens, turn)
    /\ prev = {}
    /\ mv = {}
    /\ ply = 0
    /\ SearchIdle

NextSetup == PlaySetup

SpecSetup == InitSetup /\ [][NextSetup]_vars

\* The positions the search is called on: a setup of one to four pawns,
\* either side to move, played on by the caller for up to MaxRootPly plies.
SearchSetups ==
    { {Tok("W", 0, 7), Tok("B", 1, 2)},
      {Tok("W", 3, 4), Tok("B", 4, 5)},
      {Tok("W", 0, 2), Tok("B", 1, 7)},
      {Tok("W", 0, 4), Tok("B", 0, 5)},
      {Tok("W", 0, 2), Tok("W", 2, 2), Tok("B", 1, 4)},
      {Tok("W", 1, 5), Tok("B", 0, 7), Tok("B", 2, 7)},
      {Tok("W", 0, 2), Tok("W", 1, 2), Tok("B", 0, 7), Tok("B", 1, 7)},
      {Tok("W", 7, 3)} }

RECURSIVE PlayedFrom(_, _)
PlayedFrom(P, n) ==
    IF n = 0 THEN P
    ELSE P \cup PlayedFrom(UNION {{apply_move(q, m) :
                                         m \in Range(generate_moves(q))} :
                                     q \in P}, n - 1)

SearchRoots ==
    PlayedFrom({from_setup_tokens(tokens, turn) :
                   tokens \in SearchSetups, turn \in Colors}, MaxRootPly)

\* What an earlier, unrelated game may have left in the table under the key
\* of the position searched (the table is never reset by the search, and a
\* 64-bit key does not identify a position): an entry of small or large
\* depth whose best move is absent or is no move of this position.
ForeignEntries ==
    {TTEntry(d, Heuristic(0), EXACT, bm) :
        d \in {0, 64}, bm \in {{}, {Move(0, 63, FALSE, FALSE)}}}

InitSearch ==
    /\ pos \in SearchRoots
    /\ \/ TT = EmptyTT
       \/ \E e \in ForeignEntries : TT = TTPut(EmptyTT, zobrist_key(pos), e)
    /\ prev = {}
    /\ mv = {}
    /\ ply = 0
    /\ NODES = 0
    /\ TT_HITS = 0
    /\ TT_STORES = 0
    /\ clock = NoDeadline
    /\ pc = "idle"
    /\ cur_depth = 1
    /\ best = {}
    /\ max_depth = 1
    /\ result = {}
    /\ TT_others = 0
    /\ op = NoOp
    /\ heap = NoHeap

NextSearch ==
    \/ Call
    \/ DeadlineBreak
    \/ SearchDepth
    \/ DepthsDone
    \/ ReturnBest
    \/ ReturnFirst
    \/ RaiseNoLegalMoves

SpecSearch == InitSearch /\ [][NextSearch]_vars

\* what every SearchDepth step does to the loop: _search_depth returns for
\* every argument, so SearchDepth can be taken exactly when this can
SearchDepthPass ==
    /\ pc = "loop"
    /\ cur_depth <= max_depth
    /\ clock # 0
    /\ cur_depth' = cur_depth + 1

\* the steps of a call outside _search_depth
CallGoesOn ==
    DeadlineBreak \/ DepthsDone \/ ReturnBest \/ ReturnFirst \/ RaiseNoLegalMoves

\* choose_move_iterdeep is straight-line code run by one thread: a call that
\* can take its next step takes it
SpecSearchFair ==
    /\ InitSearch
    /\ [][NextSearch]_vars
    /\ WF_vars(CallGoesOn)
    /\ WF_cur_depth(SearchDepthPass)

\* ------------------------------------------------------------------------
\* Text (game.py, notation.py).  A str is a sequence of one-character
\* strings; a function that raises ValueError gives {}, one that returns v
\* gives {v}.
\* ------------------------------------------------------------------------
FILES == <<"a", "b", "c", "d", "e", "f", "g", "h">>

\* the characters the texts of the model are written in, with their codes
CharCodes ==
    {<<" ", 32>>, <<"-", 45>>, <<">", 62>>,
     <<"0", 48>>, <<"1", 49>>, <<"2", 50>>, <<"3", 51>>, <<"4", 52>>,
     <<"5", 53>>, <<"6", 54>>, <<"7", 55>>, <<"8", 56>>, <<"9", 57>>,
     <<"A", 65>>, <<"B", 66>>, <<"C", 67>>, <<"D", 68>>, <<"E", 69>>,
     <<"F", 70>>, <<"G", 71>>, <<"H", 72>>, <<"I", 73>>, <<"P", 80>>,
     <<"S", 83>>, <<"T", 84>>, <<"U", 85>>, <<"W", 87>>,
     <<"a", 97>>, <<"b", 98>>, <<"c", 99>>, <<"d", 100>>, <<"e", 101>>,
     <<"f", 102>>, <<"g", 103>>, <<"h", 104>>, <<"i", 105>>, <<"p", 112>>,
     <<"s", 115>>, <<"t", 116>>, <<"u", 117>>, <<"w", 119>>}

Alphabet == {e[1] : e \in CharCodes}

\* ord(c) and chr(n)
ord(c) == (CHOOSE e \in CharCodes : e[1] = c)[2]

chr(n) == (CHOOSE e \in CharCodes : e[2] = n)[1]

isupper(c) == ord(c) >= 65 /\ ord(c) <= 90

islower(c) == ord(c) >= 97 /\ ord(c) <= 122

isalpha(c) == isupper(c) \/ islower(c)

isspace(c) == c = " "

\* str.lower() and str.upper()
lower(s) == [i \in 1 .. Len(s) |-> IF isupper(s[i]) THEN chr(ord(s[i]) + 32) ELSE s[i]]

upper(s) == [i \in 1 .. Len(s) |-> IF islower(s[i]) THEN chr(ord(s[i]) - 32) ELSE s[i]]

\* str.strip()
RECURSIVE lstrip(_)
lstrip(s) == IF s # <<>> /\ isspace(s[1]) THEN lstrip(Tail(s)) ELSE s

RECURSIVE rstrip(_)
rstrip(s) ==
    IF s # <<>> /\ isspace(s[Len(s)]) THEN rstrip(SubSeq(s, 1, Len(s) - 1)) ELSE s

strip(s) == rstrip(lstrip(s))

\* str.replace(old, new), old not empty
RECURSIVE replace(_, _, _)
replace(s, old, new) ==
    IF Len(s) < Len(old) THEN s
    ELSE IF SubSeq(s, 1, Len(old)) = old
    THEN new \o replace(SubSeq(s, Len(old) + 1, Len(s)), old, new)
    ELSE <<s[1]>> \o replace(Tail(s), old, new)

\* FILES.find(c)
FILES_find(c) ==
    IF \E i \in 1 .. 8 : FILES[i] = c
    THEN (CHOOSE i \in 1 .. 8 : FILES[i] = c) - 1
    ELSE 0 - 1

\* `"1" <= c <= "8"`, which the pattern class [1-8] also tests
is_rank_char(c) == ord(c) >= ord("1") /\ ord(c) <= ord("8")

\* int(c) of a digit
int(c) == ord(c) - 48

\* game.fr_to_square
fr_to_square(fr0) ==
    LET fr == strip(fr0)
    IN  IF Len(fr) # 2 THEN {}
        ELSE IF FILES_find(fr[1]) < 0 THEN {}
        ELSE IF ~is_rank_char(fr[2]) THEN {}
        ELSE {sq_index(FILES_find(fr[1]), int(fr[2]))}

\* square_to_fr of a square
square_to_fr(sq) == <<FILES[file_of(sq) + 1], chr(48 + rank_of(sq))>>

\* notation.move_to_str_fr; game.move_to_uci is the same
move_to_str_fr(m) == square_to_fr(m.src) \o square_to_fr(m.dst)

\* _SQ_RE.match(t): ^[a-h][1-8]$|^[1-8][a-h]$, case ignored
SQ_RE_match(t) ==
    /\ Len(t) = 2
    /\ \/ FILES_find(lower(<<t[1]>>)[1]) >= 0 /\ is_rank_char(t[2])
       \/ is_rank_char(t[1]) /\ FILES_find(lower(<<t[2]>>)[1]) >= 0

\* notation.parse_square
parse_square(token) ==
    LET t == lower(strip(token))
    IN  IF ~SQ_RE_match(t) THEN {}
        ELSE IF isalpha(t[1])
        THEN {sq_index(FILES_find(t[1]), int(t[2]))}
        ELSE {sq_index(FILES_find(t[2]), int(t[1]))}

\* game.uci_to_src_dst: the pair (src, dst)
uci_to_src_dst(uci0) ==
    LET uci == strip(uci0)
    IN  IF Len(uci) # 4 THEN {}
        ELSE {<<a, b>> : a \in fr_to_square(SubSeq(uci, 1, 2)),
                         b \in fr_to_square(SubSeq(uci, 3, 4))}

infer_move_white_only(p, src, dst) ==
    LET occ == occupied(p)
        mover == IF p.turn = "W" THEN p.white ELSE p.black
        is_double == /\ dst - src = 16
                     /\ rank_of(src) = 2
                     /\ (src + 8) \notin occ
                     /\ dst \notin occ
        is_ep == /\ p.ep_target = {dst}
                 /\ dst \notin occ
                 /\ abs(file_of(dst) - file_of(src)) = 1
    IN  IF src \notin mover THEN {} ELSE {Move(src, dst, is_ep, is_double)}

\* game.infer_move
infer_move(p, src, dst) ==
    LET occ == occupied(p)
        mover == IF p.turn = "W" THEN p.white ELSE p.black
        fwd == fwd_of(p.turn)
        is_double == /\ dst - src = 2 * fwd
                     /\ rank_of(src) = start_rank_of(p.turn)
                     /\ (src + fwd) \notin occ
                     /\ dst \notin occ
        is_ep == /\ p.ep_target = {dst}
                 /\ dst \notin occ
                 /\ abs(file_of(dst) - file_of(src)) = 1
    IN  IF src \notin mover THEN {} ELSE {Move(src, dst, is_ep, is_double)}

\* game.apply_uci
apply_uci(p, uci) ==
    {apply_move(p, m) : m \in UNION {infer_move(p, sd[1], sd[2]) :
                                       sd \in uci_to_src_dst(uci)}}

\* the moves of `legal` with the given source and destination
LegalMatches(p, src, dst) ==
    {m \in Range(generate_moves(p)) : m.src = src /\ m.dst = dst}

parse_move_robust_in_order(s, p) ==
    LET raw == replace(replace(replace(lower(strip(s)), <<"-", ">">>, <<>>),
                               <<"-">>, <<>>),
                       <<" ">>, <<>>)
        a == parse_square(SubSeq(raw, 1, 2))
        b == parse_square(SubSeq(raw, 3, 4))
    IN  IF Len(raw) # 4 THEN {}
        ELSE IF a = {} \/ b = {} THEN {}
        ELSE UNION {LegalMatches(p, x, y) : x \in a, y \in b}

\* notation.parse_move_robust: the moves the loops can return (the legal
\* moves are walked in the order of a set)
parse_move_robust(s, p) ==
    LET raw == replace(replace(replace(lower(strip(s)), <<"-", ">">>, <<>>),
                               <<"-">>, <<>>),
                       <<" ">>, <<>>)
        a == parse_square(SubSeq(raw, 1, 2))
        b == parse_square(SubSeq(raw, 3, 4))
        first == UNION {LegalMatches(p, x, y) : x \in a, y \in b}
        second == UNION {LegalMatches(p, y, x) : x \in a, y \in b}
    IN  IF Len(raw) # 4 THEN {}
        ELSE IF a = {} \/ b = {} THEN {}
        ELSE IF first # {} THEN first
        ELSE second

\* str.split(): the words between runs of white space
RECURSIVE split(_)
split(s) ==
    LET t == lstrip(s)
        k == CHOOSE i \in 1 .. Len(t) :
                /\ i = Len(t) \/ isspace(t[i + 1])
                /\ \A j \in 1 .. i : ~isspace(t[j])
    IN  IF t = <<>> THEN <<>>
        ELSE <<SubSeq(t, 1, k)>> \o split(SubSeq(t, k + 1, Len(t)))

\* the loop of Position.from_setup_tokens from the i-th token on: {} when a
\* token raises, else the two sets
RECURSIVE from_setup_tokens_loop(_, _, _, _)
from_setup_tokens_loop(tokens, i, w, b) ==
    LET t == strip(tokens[i])
        side == t[1]
        sq == fr_to_square(SubSeq(t, 2, Len(t)))
    IN  IF i > Len(tokens) THEN {<<w, b>>}
        ELSE IF Len(t) < 3 THEN from_setup_tokens_loop(tokens, i + 1, w, b)
        ELSE IF sq = {} THEN {}
        ELSE IF side = "W" THEN from_setup_tokens_loop(tokens, i + 1, w \cup sq, b)
        ELSE IF side = "B" THEN from_setup_tokens_loop(tokens, i + 1, w, b \cup sq)
        ELSE {}

\* Position.from_setup_tokens on a list of str
Position_from_setup_tokens(tokens, turn) ==
    {Position(wb[1], wb[2], turn, {}) :
        wb \in from_setup_tokens_loop(tokens, 1, {}, {})}

\* Position.from_setup_line
Position_from_setup_line(line, turn) ==
    LET parts == split(strip(line))
    IN  IF parts = <<>> \/ parts[1] # <<"S", "e", "t", "u", "p">> THEN {}
        ELSE Position_from_setup_tokens(Tail(parts), turn)

\* the loop of notation.parse_setup from the i-th token on
RECURSIVE parse_setup_loop(_, _, _, _)
parse_setup_loop(tokens, i, w, b) ==
    LET t == strip(tokens[i])
        col == upper(<<t[1]>>)[1]
        sq == parse_square(SubSeq(t, 2, 3))
    IN  IF i > Len(tokens) THEN {<<w, b>>}
        ELSE IF Len(t) # 3 THEN {}
        ELSE IF sq = {} THEN {}
        ELSE IF col = "W" THEN parse_setup_loop(tokens, i + 1, w \cup sq, b)
        ELSE IF col = "B" THEN parse_setup_loop(tokens, i + 1, w, b \cup sq)
        ELSE {}

\* notation.parse_setup
parse_setup(tokens) ==
    IF tokens = <<>> \/ lower(tokens[1]) # <<"s", "e", "t", "u", "p">> THEN {}
    ELSE {Position(wb[1], wb[2], "W", {}) :
            wb \in parse_setup_loop(tokens, 2, {}, {})}

\* ------------------------------------------------------------------------
\* The table functions called one at a time
\* ------------------------------------------------------------------------
reset_tt_table_only(m) == [m EXCEPT !.TT = EmptyTT, !.TT_others = 0]

\* reset_tt
reset_tt(m) ==
    [m EXCEPT !.TT = EmptyTT, !.TT_others = 0, !.NODES = 0, !.TT_HITS = 0,
              !.TT_STORES = 0]

\* the arguments the calls are made with: keys, depths, one value and the
\* windows that have it at, below, above and between their ends
TableKeys == 0 .. MaxKey

TableDepths == 0 .. MaxTableDepth

TableValue == Heuristic(0)

TableWindows ==
    {<<NEG_INF, POS_INF>>, <<NEG_INF, TableValue>>, <<TableValue, POS_INF>>,
     <<Heuristic(1), POS_INF>>, <<NEG_INF, Heuristic(0 - 1)>>,
     <<Heuristic(0 - 1), Heuristic(1)>>}

TableDone(m) ==
    /\ TT' = m.TT
    /\ TT_others' = m.TT_others
    /\ NODES' = m.NODES
    /\ TT_HITS' = m.TT_HITS
    /\ TT_STORES' = m.TT_STORES
    /\ UNCHANGED <<clock, pc, cur_depth, best, max_depth, result, heap>>
    /\ UNCHANGED game

\* _tt_store(key, depth, value, alpha0, beta0, None)
TableStore ==
    /\ op.n < MaxOps
    /\ \E key \in TableKeys, depth \in TableDepths, w \in TableWindows :
          /\ TableDone(_tt_store(Globals, key, depth, TableValue, w[1], w[2], {}))
          /\ op' = [kind |-> "store", n |-> op.n + 1, key |-> key,
                    depth |-> depth, alpha |-> w[1], beta |-> w[2],
                    out |-> [hit |-> FALSE, alpha |-> w[1], beta |-> w[2],
                             value |-> {}]]

\* _tt_probe(key, depth, alpha, beta)
TableProbed(r, key, depth, alpha, beta) ==
    /\ TableDone(r.m)
    /\ op' = [kind |-> "probe", n |-> op.n + 1, key |-> key, depth |-> depth,
              alpha |-> alpha, beta |-> beta,
              out |-> [hit |-> r.hit, alpha |-> r.alpha, beta |-> r.beta,
                       value |-> r.value]]

TableProbe ==
    /\ op.n < MaxOps
    /\ \E key \in TableKeys, depth \in TableDepths, w \in TableWindows :
          TableProbed(_tt_probe(Globals, key, depth, w[1], w[2]),
                      key, depth, w[1], w[2])

\* reset_tt()
TableReset ==
    /\ op.n < MaxOps
    /\ TableDone(reset_tt(Globals))
    /\ op' = [kind |-> "reset", n |-> op.n + 1, key |-> 0, depth |-> 0,
              alpha |-> NEG_INF, beta |-> POS_INF,
              out |-> [hit |-> FALSE, alpha |-> NEG_INF, beta |-> POS_INF,
                       value |-> {}]]

\* The table is empty, or holds entries under other keys: one short of the
\* cap or as many as the cap allows.
InitTable ==
    /\ pos = initial
    /\ prev = {}
    /\ mv = {}
    /\ ply = 0
    /\ TT = EmptyTT
    /\ TT_others \in {0, TT_MAX_SIZE - 1, TT_MAX_SIZE}
    /\ NODES = 0
    /\ TT_HITS = 0
    /\ TT_STORES = 0
    /\ clock = NoDeadline
    /\ pc = "idle"
    /\ cur_depth = 1
    /\ best = {}
    /\ max_depth = 1
    /\ result = {}
    /\ op = NoOp
    /\ heap = NoHeap

NextTable ==
    \/ TableStore
    \/ TableProbe
    \/ TableReset

SpecTable == InitTable /\ [][NextTable]_vars

\* ------------------------------------------------------------------------
\* The text functions called on a position
\* ------------------------------------------------------------------------
\* the move texts tried: source and destination on the files a .. the file
\* of index MaxTextFile, written file first
TextSquares == {sq \in Squares : file_of(sq) <= MaxTextFile}

MoveTexts == {square_to_fr(a) \o square_to_fr(b) : a, b \in TextSquares}

\* `sep` put into the text s after its first `at` characters
Insert(s, sep, at) == SubSeq(s, 1, at) \o sep \o SubSeq(s, at + 1, Len(s))

Separators == {<<>>, <<"-">>, <<"-", ">">>, <<" ">>}

\* the text of the move m: source and destination in either order, and a
\* separator somewhere
TextsOfMove(m) ==
    {Insert(t, sep, at) :
        t \in {move_to_str_fr(m),
               square_to_fr(m.dst) \o square_to_fr(m.src)},
        sep \in Separators, at \in 0 .. 4}

TextDone ==
    /\ UNCHANGED <<TT, NODES, TT_HITS, TT_STORES, clock, pc, cur_depth, best,
                   max_depth, result, TT_others, heap>>
    /\ UNCHANGED game

\* parse_move_robust(text, pos) on a text of the pool
ParseMoveRobust ==
    /\ op = NoOp
    /\ \E text \in MoveTexts :
          op' = [kind |-> "parse_move_robust", n |-> 1, text |-> text,
                 out |-> parse_move_robust(text, pos)]
    /\ TextDone

\* apply_uci(pos, text) on a text of the pool
ApplyUci ==
    /\ op = NoOp
    /\ \E text \in MoveTexts :
          op' = [kind |-> "apply_uci", n |-> 1, text |-> text,
                 out |-> apply_uci(pos, text)]
    /\ TextDone

\* parse_move_robust on a text written from a move that generate_moves
\* yields
ParseWritten ==
    /\ op = NoOp
    /\ \E m \in Range(generate_moves(pos)) : \E text \in TextsOfMove(m) :
          op' = [kind |-> "parse_written", n |-> 1, text |-> text,
                 move |-> m, out |-> parse_move_robust(text, pos)]
    /\ TextDone

TextRoots == SearchRoots \cup {initial}

InitText ==
    /\ pos \in TextRoots
    /\ prev = {}
    /\ mv = {}
    /\ ply = 0
    /\ SearchIdle

NextText ==
    \/ ParseMoveRobust
    \/ ApplyUci
    \/ ParseWritten

SpecText == InitText /\ [][NextText]_vars

\* ------------------------------------------------------------------------
\* Setup import from text
\* ------------------------------------------------------------------------
\* the tokens tried: well-formed ones, two of them naming one square for
\* either colour, and one of each malformed kind (short, long, lower-case
\* colour, unknown colour, rank before file, bad file, bad rank)
SetupTokens ==
    {<<"W", "a", "2">>, <<"B", "b", "7">>, <<"W", "h", "8">>,
     <<"B", "a", "2">>,
     <<"W", "a">>, <<"W", "a", "2", "2">>, <<"w", "a", "2">>,
     <<"S", "a", "2">>, <<"W", "2", "a">>, <<"B", "i", "2">>,
     <<"B", "a", "9">>}

RECURSIVE TokenLists(_)
TokenLists(n) ==
    IF n = 0 THEN {<<>>}
    ELSE TokenLists(n - 1) \cup
         {Append(l, t) : l \in {x \in TokenLists(n - 1) : Len(x) = n - 1},
                         t \in SetupTokens}

\* " ".join(words)
RECURSIVE join(_)
join(words) ==
    IF words = <<>> THEN <<>>
    ELSE IF Len(words) = 1 THEN words[1]
    ELSE words[1] \o <<" ">> \o join(Tail(words))

SetupWord == <<"S", "e", "t", "u", "p">>

\* the importer's result is kept as the position when there is one
Imported(kind, tokens, out) ==
    /\ op = NoOp
    /\ op' = [kind |-> kind, n |-> 1, tokens |-> tokens, out |-> out]
    /\ pos' = IF out = {} THEN pos ELSE CHOOSE p \in out : TRUE
    /\ UNCHANGED <<prev, mv, ply>>
    /\ UNCHANGED <<TT, NODES, TT_HITS, TT_STORES, clock, pc, cur_depth, best,
                   max_depth, result, TT_others, heap>>

FromSetupTokens ==
    \E tokens \in TokenLists(MaxTokens), turn \in Colors :
        Imported("from_setup_tokens", tokens,
                 Position_from_setup_tokens(tokens, turn))

FromSetupLine ==
    \E tokens \in TokenLists(MaxTokens), turn \in Colors :
        Imported("from_setup_line", tokens,
                 Position_from_setup_line(join(<<SetupWord>> \o tokens), turn))

ParseSetup ==
    \E tokens \in TokenLists(MaxTokens) :
        Imported("parse_setup", tokens, parse_setup(<<SetupWord>> \o tokens))

InitImport ==
    /\ pos = initial
    /\ prev = {}
    /\ mv = {}
    /\ ply = 0
    /\ SearchIdle

NextImport ==
    \/ FromSetupTokens
    \/ FromSetupLine
    \/ ParseSetup

SpecImport == InitImport /\ [][NextImport]_vars

\* ------------------------------------------------------------------------
\* Time budget (ab_agent.py).  Times are in milliseconds; a float is the
\* fraction num / den with den > 0, compared by cross-multiplication.
\* ------------------------------------------------------------------------
Rat(num, den) == [num |-> num, den |-> den]

RatLE(x, y) == x.num * y.den <= y.num * x.den

RatEq(x, y) == x.num * y.den = y.num * x.den

RatMax(x, y) == IF RatLE(y, x) THEN x ELSE y

RatMin(x, y) == IF RatLE(x, y) THEN x ELSE y

compute_time_budget_no_reserve(time_left_sec) ==
    LET t == CHOOSE x \in time_left_sec : TRUE
        tl == RatMax(Rat(0, 1), Rat(t, 1))
        budget == Rat(tl.num, tl.den * 35)
    IN  IF time_left_sec = {} THEN Rat(150, 1)
        ELSE RatMax(Rat(20, 1), RatMin(Rat(350, 1), budget))

\* compute_time_budget(time_left_sec), time_left_sec an Optional number of
\* milliseconds: `reserve = 0.05`, `tl = max(0.0, time_left_sec - reserve)`,
\* `budget = tl / 35.0`, `max(0.02, min(0.35, budget))`
compute_time_budget(time_left_sec) ==
    LET t == CHOOSE x \in time_left_sec : TRUE
        reserve == 50
        tl == RatMax(Rat(0, 1), Rat(t - reserve, 1))
        budget == Rat(tl.num, tl.den * 35)
    IN  IF time_left_sec = {} THEN Rat(150, 1)
        ELSE RatMax(Rat(20, 1), RatMin(Rat(350, 1), budget))

\* compute_time_budget called with no clock value or with a whole number of
\* milliseconds up to MaxTimeMs
ComputeTimeBudget ==
    /\ op = NoOp
    /\ \E time_left \in {{}} \cup {{t} : t \in 0 .. MaxTimeMs} :
          op' = [kind |-> "compute_time_budget", n |-> 1,
                 time_left |-> time_left, out |-> compute_time_budget(time_left)]
    /\ TextDone

InitBudget ==
    /\ pos = initial
    /\ prev = {}
    /\ mv = {}
    /\ ply = 0
    /\ SearchIdle

NextBudget == ComputeTimeBudget

SpecBudget == InitBudget /\ [][NextBudget]_vars

\* ------------------------------------------------------------------------
\* Move application on objects (game.py, ab_agent.py).  A Position object
\* holds references to two set objects; the statements of clone, apply_move
\* and apply_move_fixed are followed on the heap.
\* ------------------------------------------------------------------------
\* the Position value an object stands for
PositionOf(h, o) ==
    [white |-> h.sets[h.objs[o].white], black |-> h.sets[h.objs[o].black],
     turn |-> h.objs[o].turn, ep_target |-> h.objs[o].ep_target,
     last_move |-> h.objs[o].last_move]

\* `Position(white=w, black=b, turn=..., ep_target=...)` of two new sets
NewPosition(h, w, b, turn, ep_target) ==
    [h |-> [sets |-> h.sets \o <<w, b>>,
            objs |-> Append(h.objs,
                            [white |-> Len(h.sets) + 1, black |-> Len(h.sets) + 2,
                             turn |-> turn, ep_target |-> ep_target,
                             last_move |-> {}])],
     ret |-> Len(h.objs) + 1]

clone_shares_sets(h, o) ==
    [h |-> [sets |-> h.sets,
            objs |-> Append(h.objs, [h.objs[o] EXCEPT !.last_move = {}])],
     ret |-> Len(h.objs) + 1]

\* Position.clone: `Position(set(self.white), set(self.black), self.turn,
\* self.ep_target)`
clone(h, o) ==
    NewPosition(h, h.sets[h.objs[o].white], h.sets[h.objs[o].black],
                h.objs[o].turn, h.objs[o].ep_target)

\* apply_move after `newp = pos.clone()`, c being what clone gave
apply_move_cloned(c, m) ==
    LET newp == c.ret
        turn == c.h.objs[newp].turn
        mover == IF turn = "W" THEN c.h.objs[newp].white ELSE c.h.objs[newp].black
        opp == IF turn = "W" THEN c.h.objs[newp].black ELSE c.h.objs[newp].white
        fwd == fwd_of(turn)
        h1 == [c.h EXCEPT !.objs[newp].ep_target = {}]
        h2 == [h1 EXCEPT !.sets[mover] = @ \ {m.src}]
        h3 == IF m.dst \in h2.sets[opp]
              THEN [h2 EXCEPT !.sets[opp] = @ \ {m.dst}] ELSE h2
        h4 == [h3 EXCEPT !.sets[mover] = @ \cup {m.dst}]
        h5 == IF m.is_double
              THEN [h4 EXCEPT !.objs[newp].ep_target = {m.src + fwd}] ELSE h4
        h6 == [h5 EXCEPT !.objs[newp].turn = IF turn = "W" THEN "B" ELSE "W"]
    IN  [h |-> h6, ret |-> newp]

\* game.apply_move on the object o
apply_move_obj(h, o, m) == apply_move_cloned(clone(h, o), m)

\* apply_move_fixed after `new_pos = apply_move(pos, mv)`, r being what
\* apply_move gave and mover the side that moved
apply_move_fixed_applied(r, mover, m) ==
    LET new_pos == r.ret
        cap_sq == IF mover = "W" THEN m.dst - 8 ELSE m.dst + 8
        victim == IF mover = "W" THEN r.h.objs[new_pos].black
                  ELSE r.h.objs[new_pos].white
        h1 == IF m.is_ep THEN [r.h EXCEPT !.sets[victim] = @ \ {cap_sq}] ELSE r.h
    IN  [h |-> [h1 EXCEPT !.objs[new_pos].last_move = {m}], ret |-> new_pos]

\* ab_agent.apply_move_fixed on the object o
apply_move_fixed_obj(h, o, m) ==
    apply_move_fixed_applied(apply_move_obj(h, o, m), h.objs[o].turn, m)

\* a call on one of the objects, with a move generate_moves yields for it,
\* as the search makes them on the root and on what the calls returned
Applied(kind, r, o, m) ==
    /\ heap' = r.h
    /\ op' = [kind |-> kind, n |-> op.n + 1, arg |-> o, move |-> m, ret |-> r.ret]
    /\ UNCHANGED <<TT, NODES, TT_HITS, TT_STORES, clock, pc, cur_depth, best,
                   max_depth, result, TT_others>>
    /\ UNCHANGED game

ApplyMove ==
    /\ Len(heap.objs) < MaxObjects
    /\ \E o \in 1 .. Len(heap.objs) :
          \E m \in Range(generate_moves(PositionOf(heap, o))) :
              Applied("apply_move", apply_move_obj(heap, o, m), o, m)

ApplyMoveFixed ==
    /\ Len(heap.objs) < MaxObjects
    /\ \E o \in 1 .. Len(heap.objs) :
          \E m \in Range(generate_moves(PositionOf(heap, o))) :
              Applied("apply_move_fixed", apply_move_fixed_obj(heap, o, m), o, m)

\* the root position is the first object
InitObjects ==
    /\ pos \in TextRoots
    /\ heap = NewPosition(NoHeap, pos.white, pos.black, pos.turn, pos.ep_target).h
    /\ prev = {}
    /\ mv = {}
    /\ ply = 0
    /\ TT = EmptyTT
    /\ NODES = 0
    /\ TT_HITS = 0
    /\ TT_STORES = 0
    /\ clock = NoDeadline
    /\ pc = "idle"
    /\ cur_depth = 1
    /\ best = {}
    /\ max_depth = 1
    /\ result = {}
    /\ TT_others = 0
    /\ op = NoOp

NextObjects ==
    \/ ApplyMove
    \/ ApplyMoveFixed

SpecObjects == InitObjects /\ [][NextObjects]_vars

\* ------------------------------------------------------------------------
\* A game: the caller searches, plays the move returned and searches again;
\* between two calls it may reset the table, and probe it after the reset.
\* ------------------------------------------------------------------------
\* a call has ended and the next has not started
BetweenCalls == pc \in {"returned", "raised"}

\* `pos = apply_move(pos, mv)` for the move the search returned, as the
\* drivers do while winner reports no side, and the locals of the next call.
\* The searches of a game that are followed by another are those that no
\* deadline cut short; the last one has any deadline.
PlayOn ==
    /\ pc = "returned"
    /\ ply < MaxGamePly
    /\ clock = NoDeadline
    /\ \E m \in result :
          /\ winner(apply_move(pos, m)) = {}
          /\ pos' = apply_move(pos, m)
          /\ prev' = {pos}
          /\ mv' = {m}
    /\ ply' = ply + 1
    /\ pc' = "idle"
    /\ cur_depth' = 1
    /\ best' = {}
    /\ result' = {}
    /\ UNCHANGED <<TT, NODES, TT_HITS, TT_STORES, clock, max_depth>>
    /\ UNCHANGED table

\* reset_tt() between two calls
ResetBetweenCalls ==
    /\ BetweenCalls
    /\ TableReset

\* the keys of the position and of the positions the search builds from it
KeysNear(p) ==
    {zobrist_key(p)} \cup
    {zobrist_key(apply_move_fixed(p, m)) : m \in Range(generate_moves(p))}

\* _tt_probe(key, depth, -10**18, 10**18) after a reset
ProbeAfterReset ==
    /\ BetweenCalls
    /\ op.kind = "reset"
    /\ op.n < MaxOps
    /\ \E key \in KeysNear(pos), depth \in TableDepths :
          TableProbed(_tt_probe(Globals, key, depth, NEG_INF, POS_INF),
                      key, depth, NEG_INF, POS_INF)

NextGames ==
    \/ NextSearch
    \/ PlayOn
    \/ ResetBetweenCalls
    \/ ProbeAfterReset

\* a game starts from a setup, with the table as the module built it or
\* with what an earlier game left under the key of the position
GameRoots ==
    {from_setup_tokens(tokens, turn) : tokens \in SearchSetups, turn \in Colors}

InitGames ==
    /\ pos \in GameRoots
    /\ \/ TT = EmptyTT
       \/ \E e \in ForeignEntries : TT = TTPut(EmptyTT, zobrist_key(pos), e)
    /\ prev = {}
    /\ mv = {}
    /\ ply = 0
    /\ NODES = 0
    /\ TT_HITS = 0
    /\ TT_STORES = 0
    /\ clock = NoDeadline
    /\ pc = "idle"
    /\ cur_depth = 1
    /\ best = {}
    /\ max_depth = 1
    /\ result = {}
    /\ TT_others = 0
    /\ op = NoOp
    /\ heap = NoHeap

SpecGames == InitGames /\ [][NextGames]_vars

\* ------------------------------------------------------------------------
\* _alphabeta and _search_depth called on one node
\* ------------------------------------------------------------------------
\* the nodes: the setups of the pool and the positions the search builds
\* from them
NodeRoots ==
    GameRoots \cup
    UNION {{apply_move_fixed(p, m) : m \in Range(generate_moves(p))} :
              p \in GameRoots}

\* what the table may hold under the key of the node: an entry of any flag,
\* of no depth or of the greatest depth asked for, whose best move is absent,
\* a move of the node, or no move of the node
NodeEntries(p) ==
    {TTEntry(d, Heuristic(0), f, bm) :
        d \in {0, MaxDepth}, f \in {EXACT, LOWER, UPPER},
        bm \in {{}, {Move(0, 63, FALSE, FALSE)}} \cup
               {{m} : m \in Range(generate_moves(p))}}

\* the windows a node is entered with: open, or closed on one side or on
\* both at a sentinel or at a static evaluation
NodeWindows ==
    {<<NEG_INF, POS_INF>>, <<NEG_INF, WIN_SCORE>>, <<WIN_SCORE, POS_INF>>,
     <<NEG_INF, LOSS_SCORE>>, <<LOSS_SCORE, WIN_SCORE>>, <<Heuristic(0), POS_INF>>}

\* the readings of the clock still before the deadline when the node is
\* entered: none, enough for one child, or all
NodeClocks == {0, 2, 3, NoDeadline}

NodeDone(m) ==
    /\ TT' = m.TT
    /\ TT_others' = m.TT_others
    /\ NODES' = m.NODES
    /\ TT_HITS' = m.TT_HITS
    /\ TT_STORES' = m.TT_STORES
    /\ clock' = m.clock
    /\ UNCHANGED <<pc, cur_depth, best, max_depth, result, heap>>
    /\ UNCHANGED game

\* _alphabeta(pos, depth, alpha, beta, deadline); r is what it returned
AlphaBetaDone(r, depth, alpha, beta, c) ==
    /\ NodeDone(r.m)
    /\ op' = [kind |-> "alphabeta", n |-> 1, depth |-> depth, alpha |-> alpha,
              beta |-> beta, clock |-> c,
              before |-> TTGet(TT, zobrist_key(pos)), val |-> r.val, mv |-> {}]

AlphaBeta ==
    /\ op = NoOp
    /\ \E depth \in 0 .. MaxDepth, w \in NodeWindows, c \in NodeClocks :
          AlphaBetaDone(_alphabeta([Globals EXCEPT !.clock = c], pos, depth,
                                   w[1], w[2]),
                        depth, w[1], w[2], c)

\* _search_depth(pos, depth, deadline); r is what it returned
RootSearchDone(r, depth, c) ==
    /\ NodeDone(r.m)
    /\ op' = [kind |-> "search_depth", n |-> 1, depth |-> depth,
              alpha |-> NEG_INF, beta |-> POS_INF, clock |-> c,
              before |-> TTGet(TT, zobrist_key(pos)), val |-> r.val, mv |-> r.mv]

RootSearch ==
    /\ op = NoOp
    /\ \E depth \in 1 .. MaxDepth, c \in NodeClocks :
          RootSearchDone(_search_depth([Globals EXCEPT !.clock = c], pos, depth),
                         depth, c)

InitNode ==
    /\ pos \in NodeRoots
    /\ \/ TT = EmptyTT
       \/ \E e \in NodeEntries(pos) : TT = TTPut(EmptyTT, zobrist_key(pos), e)
    /\ prev = {}
    /\ mv = {}
    /\ ply = 0
    /\ NODES = 0
    /\ TT_HITS = 0
    /\ TT_STORES = 0
    /\ clock = NoDeadline
    /\ pc = "idle"
    /\ cur_depth = 1
    /\ best = {}
    /\ max_depth = 1
    /\ result = {}
    /\ TT_others = 0
    /\ op = NoOp
    /\ heap = NoHeap

NextNode ==
    \/ AlphaBeta
    \/ RootSearch

SpecNode == InitNode /\ [][NextNode]_vars

\* ------------------------------------------------------------------------
\* Properties of the rules model
\* ------------------------------------------------------------------------
Other(c) == IF c = "W" THEN "B" ELSE "W"

OwnOf(p, c) == IF c = "W" THEN p.white ELSE p.black

WhiteOnBackRank(p) == \E sq \in p.white : rank_of(sq) = 8

BlackOnBackRank(p) == \E sq \in p.black : rank_of(sq) = 1

\* C1: in every position reached from Position.initial() by apply_move on
\* moves that generate_moves yields, no square holds both a white and a black
\* pawn and every occupied square is in 0..63.
C1_OccupancyDisjoint ==
    /\ pos.white \cap pos.black = {}
    /\ occupied(pos) \subseteq Squares

\* a capture has been played from the initial position
C1_Witness ==
    \E q \in prev, m \in mv :
        /\ m.dst \in OwnOf(q, Other(q.turn))
        /\ m.dst \in OwnOf(pos, q.turn)

\* C3: a move applied with the en-passant flag set moves only the capturing
\* pawn: the opponent's squares are what they were, the pawn that made the
\* double step is still on its square, and the mover went from src to dst.
C3_EnPassantKeepsPassedPawn ==
    \A q \in prev, m \in mv :
        m.is_ep =>
            /\ OwnOf(pos, Other(q.turn)) = OwnOf(q, Other(q.turn))
            /\ sq_index(file_of(m.dst), rank_of(m.src)) \in OwnOf(pos, Other(q.turn))
            /\ OwnOf(pos, q.turn) = (OwnOf(q, q.turn) \ {m.src}) \cup {m.dst}

\* an en-passant move has been applied next to the pawn that double-stepped
C3_Witness ==
    \E q \in prev, m \in mv :
        /\ m.is_ep
        /\ sq_index(file_of(m.dst), rank_of(m.src)) \in OwnOf(q, Other(q.turn))

\* C4: after apply_move the en-passant target is the square the pawn passed
\* over (on the mover's file, rank 3 for white and rank 6 for black, that is
\* src+8 and src-8) if the move was a double step, and is absent after every
\* other move, whatever the target was before.
C4_EpTargetOnePly ==
    \A q \in prev, m \in mv :
        /\ m.is_double =>
              /\ pos.ep_target =
                    {sq_index(file_of(m.src), IF q.turn = "W" THEN 3 ELSE 6)}
              /\ pos.ep_target =
                    {IF q.turn = "W" THEN m.src + 8 ELSE m.src - 8}
        /\ ~m.is_double => pos.ep_target = {}

\* a move that is no double step has been applied to a position that had an
\* en-passant target
C4_Witness ==
    \E q \in prev, m \in mv :
        /\ q.ep_target # {}
        /\ ~m.is_double
        /\ pos.ep_target = {}

C6_WipeoutLoses ==
    ~WhiteOnBackRank(pos) /\ ~BlackOnBackRank(pos) =>
        /\ (pos.black = {} /\ pos.white # {}) => winner(pos) = {"W"}
        /\ (pos.white = {} /\ pos.black # {}) => winner(pos) = {"B"}

\* the last pawn of the side now to move has just been captured, and the
\* capturing side is not on the back rank
C6_Witness ==
    \E q \in prev, m \in mv :
        /\ OwnOf(q, pos.turn) = {m.dst}
        /\ OwnOf(pos, pos.turn) = {}
        /\ ~WhiteOnBackRank(pos) /\ ~BlackOnBackRank(pos)

\* C7: with no pawn on a target back rank and pawns on both sides, winner
\* reports the opponent of the side to move when that side has no move, and
\* reports no winner exactly when it has one: there is no draw.
C7_NoMoveLoses ==
    (/\ ~WhiteOnBackRank(pos) /\ ~BlackOnBackRank(pos)
     /\ pos.white # {} /\ pos.black # {}) =>
        /\ generate_moves(pos) = <<>> => winner(pos) = {Other(pos.turn)}
        /\ winner(pos) = {} <=> generate_moves(pos) # <<>>

\* play has reached a position where both sides have pawns, none on a back
\* rank, and the side to move is blocked
C7_Witness ==
    /\ mv # {}
    /\ ~WhiteOnBackRank(pos) /\ ~BlackOnBackRank(pos)
    /\ pos.white # {} /\ pos.black # {}
    /\ generate_moves(pos) = <<>>

\* The legal moves as the rules state them, by file and rank.
At(f, r) == sq_index(f, r)

RulesMoves(p) ==
    LET own == OwnOf(p, p.turn)
        opp == OwnOf(p, Other(p.turn))
        occ == own \cup opp
        dir == IF p.turn = "W" THEN 1 ELSE 0 - 1
        start == IF p.turn = "W" THEN 2 ELSE 7
        f(s) == file_of(s)
        r(s) == rank_of(s)
    IN  {Move(s, At(f(s), r(s) + dir), FALSE, FALSE) :
            s \in {x \in own : r(x) + dir \in 1 .. 8
                               /\ At(f(x), r(x) + dir) \notin occ}}
        \cup
        {Move(s, At(f(s), r(s) + 2 * dir), FALSE, TRUE) :
            s \in {x \in own : r(x) = start
                               /\ At(f(x), r(x) + dir) \notin occ
                               /\ At(f(x), r(x) + 2 * dir) \notin occ}}
        \cup
        UNION {{Move(s, At(g, r(s) + dir), FALSE, FALSE) :
                    g \in {h \in {f(s) - 1, f(s) + 1} :
                              /\ h \in 0 .. 7
                              /\ r(s) + dir \in 1 .. 8
                              /\ At(h, r(s) + dir) \in opp}} : s \in own}
        \cup
        UNION {{Move(s, e, TRUE, FALSE) :
                    e \in {t \in p.ep_target :
                              /\ r(t) = r(s) + dir
                              /\ abs(f(t) - f(s)) = 1}} : s \in own}

\* C8: in every position with disjoint occupancy the moves generate_moves
\* yields are exactly the forward-one, forward-two, diagonal-capture and
\* en-passant moves of the rules, each yielded once, and every destination
\* is a square of the board.
C8_GeneratedMovesAreTheRules ==
    pos.white \cap pos.black = {} =>
        /\ Range(generate_moves(pos)) = RulesMoves(pos)
        /\ Cardinality(Range(generate_moves(pos))) = Len(generate_moves(pos))
        /\ \A m \in Range(generate_moves(pos)) : m.dst \in Squares

\* an en-passant move is yielded in a position where the side to move has a
\* pawn on an edge file
C8_Witness ==
    /\ \E m \in Range(generate_moves(pos)) : m.is_ep
    /\ \E s \in OwnOf(pos, pos.turn) : file_of(s) \in {0, 7}

\* C9 as stated: 16 forward-one and 16 forward-two moves, 32 in all, and no
\* capture, for the side to move in the initial position.
ForwardOnes(p) ==
    {m \in Range(generate_moves(p)) :
        ~m.is_double /\ ~m.is_ep /\ m.dst = m.src + fwd_of(p.turn)}

ForwardTwos(p) == {m \in Range(generate_moves(p)) : m.is_double}

Captures(p) ==
    {m \in Range(generate_moves(p)) :
        m.is_ep \/ m.dst \in OwnOf(p, Other(p.turn))}

C9_Original ==
    pos = initial =>
        /\ Cardinality(ForwardOnes(pos)) = 16
        /\ Cardinality(ForwardTwos(pos)) = 16
        /\ Len(generate_moves(pos)) = 32
        /\ Captures(pos) = {}

\* C9, amended: in the initial position the side to move has exactly 8
\* forward-one and 8 forward-two moves, 16 in all, and no capture.
C9_InitialMoves ==
    pos = initial =>
        /\ Cardinality(ForwardOnes(pos)) = 8
        /\ Cardinality(ForwardTwos(pos)) = 8
        /\ Len(generate_moves(pos)) = 16
        /\ Captures(pos) = {}

C9_Witness == pos = initial /\ ply = 0 /\ Len(generate_moves(pos)) = 16

\* ------------------------------------------------------------------------
\* Properties of the search
\* ------------------------------------------------------------------------
CallEnded == pc \in {"returned", "raised"}

\* the table's entry under the key of the position searched
RootEntry == TTGet(TT, zobrist_key(pos))

\* C2: when the position has a legal move, choose_move_iterdeep returns, and
\* what it returns is one of the moves generate_moves yields for the
\* position, whatever the table held and whenever the deadline passed; the
\* move kept in `best` between depths is such a move too.
C2_ChosenMoveIsLegal ==
    generate_moves(pos) # <<>> =>
        /\ best \subseteq Range(generate_moves(pos))
        /\ CallEnded =>
              /\ pc = "returned"
              /\ result # {}
              /\ result \subseteq Range(generate_moves(pos))

\* a call has returned the move of a root search that the deadline cut
\* short, with a table entry for the position whose best move is not legal
C2_Witness ==
    /\ pc = "returned"
    /\ best # {}
    /\ clock = 0
    /\ \E e \in RootEntry :
          e.best_move # {} /\ ~(e.best_move \subseteq Range(generate_moves(pos)))

\* C10: when the side to move has no legal move, choose_move_iterdeep never
\* returns a move and never holds one in `best`; every step of the call is
\* followed by another until the call has raised "No legal moves.".
C10_NoLegalMovesRaises ==
    generate_moves(pos) = <<>> =>
        /\ pc # "returned"
        /\ result = {}
        /\ best = {}
        /\ pc \in {"loop", "select"} => ENABLED NextSearch

\* the call has raised after the deadline passed, the table not being empty
C10_Witness ==
    /\ pc = "raised"
    /\ clock = 0
    /\ TT # EmptyTT

\* C11: a call on a terminal position (winner names a side) ends by raising
\* "No legal moves." and returns no move.
C11_TerminalRaises ==
    (winner(pos) # {} /\ CallEnded) => (pc = "raised" /\ result = {})

\* the readings of time.perf_counter() that the root search of the current
\* depth takes when none of them reaches the deadline
ReadingsOfDepth ==
    1000 - _search_depth([Tick(Globals) EXCEPT !.clock = 1000], pos, cur_depth).m.clock

\* the deadline passes while the root search of the current depth runs: the
\* readings still before the deadline, after the one of the loop's own test,
\* are fewer than the search takes
DepthInterrupted ==
    /\ clock > 0
    /\ ReadingsOfDepth > Tick(Globals).clock

\* C12: a root search of depth d >= 2 that the deadline interrupts leaves
\* `best` as the last completed depth set it, so the move returned is the one
\* of depth d-1.
C12_InterruptedDepthDiscarded ==
    [][(pc = "loop" /\ cur_depth' = cur_depth + 1 /\ cur_depth >= 2
            /\ best # {} /\ DepthInterrupted)
        => best' = best]_vars

\* the entry under the key of the table call just made, as it was before
OpEntryBefore == TTGet(TT, op'.key)

\* C13: a probe reports a hit, tightens alpha or beta, supplies a value or
\* counts a hit only when the table held an entry under the key whose depth
\* is at least the depth asked for; no probe changes the table.
C13_ProbeNeedsDepth ==
    [][op'.kind = "probe" =>
        /\ TT' = TT /\ TT_others' = TT_others
        /\ (\/ op'.out.hit
            \/ op'.out.alpha # op'.alpha
            \/ op'.out.beta # op'.beta
            \/ op'.out.value # {}
            \/ TT_HITS' # TT_HITS)
           => \E e \in OpEntryBefore : e.depth >= op'.depth]_vars

\* a probe has asked for more depth than the entry under its key has
C13_Witness ==
    /\ op.kind = "probe"
    /\ \E e \in TTGet(TT, op.key) : e.depth < op.depth
    /\ ~op.out.hit

\* C14: a store under a key whose entry has a greater depth changes neither
\* the table nor the store counter; any other store counts one store and
\* leaves its entry under the key unless the table is cleared; and in no
\* step does the depth of an entry that stays in the table decrease.
C14_StoreKeepsDeeperEntry ==
    [][/\ op'.kind = "store" =>
            IF \E o \in OpEntryBefore : op'.depth < o.depth
            THEN TT' = TT /\ TT_others' = TT_others /\ TT_STORES' = TT_STORES
            ELSE /\ TT_STORES' = TT_STORES + 1
                 /\ \/ TT' = EmptyTT
                    \/ \E e \in TTGet(TT', op'.key) : e.depth = op'.depth
       /\ \A k \in DOMAIN TT \cap DOMAIN TT' : TT'[k].depth >= TT[k].depth]_vars

\* a store has asked for less depth than the entry under its key has, after
\* the store that made that entry
C14_Witness ==
    /\ op.kind = "store"
    /\ TT_STORES >= 1
    /\ \E e \in TTGet(TT, op.key) : op.depth < e.depth

\* len(TT) before the table call just made, and after it
LenBefore == Cardinality(DOMAIN TT) + TT_others

LenAfter == Cardinality(DOMAIN TT') + TT_others'

\* C15: after a store the table holds at most TT_MAX_SIZE entries; a store
\* that adds an entry to a table of TT_MAX_SIZE entries leaves the table
\* empty, the new entry dropped too; every other store keeps every entry
\* under another key as it was.
C15_WholeTableEviction ==
    [][op'.kind = "store" =>
        /\ LenAfter <= TT_MAX_SIZE
        /\ IF OpEntryBefore = {} /\ LenBefore + 1 > TT_MAX_SIZE
           THEN TT' = EmptyTT /\ TT_others' = 0
           ELSE /\ DOMAIN TT \subseteq DOMAIN TT'
                /\ TT_others' = TT_others
                /\ op'.key \in DOMAIN TT'
                /\ \A k \in DOMAIN TT \ {op'.key} : TT'[k] = TT[k]]_vars

\* a store has been counted and has left the table empty
C15_Witness ==
    /\ op.kind = "store"
    /\ TT_STORES >= 1
    /\ TT = EmptyTT
    /\ TT_others = 0

\* ------------------------------------------------------------------------
\* Properties of the text functions
\* ------------------------------------------------------------------------
\* a square code: a file letter a-h, then a rank digit 1-8
IsSquareCode(t) ==
    /\ Len(t) = 2
    /\ t[1] \in Range(FILES)
    /\ t[2] \in {"1", "2", "3", "4", "5", "6", "7", "8"}

\* the square a square code names
SquareOfCode(t) ==
    At((CHOOSE i \in 1 .. 8 : FILES[i] = t[1]) - 1,
       CHOOSE r \in 1 .. 8 : chr(48 + r) = t[2])

\* a move text of two square codes
IsMoveText(t) ==
    Len(t) = 4 /\ IsSquareCode(SubSeq(t, 1, 2)) /\ IsSquareCode(SubSeq(t, 3, 4))

\* some legal move of p goes between the two squares of the text, in the
\* order written or the other way round
TextMatchesLegal(p, t) ==
    \E m \in Range(generate_moves(p)) :
        LET a == SquareOfCode(SubSeq(t, 1, 2))
            b == SquareOfCode(SubSeq(t, 3, 4))
        IN  (m.src = a /\ m.dst = b) \/ (m.src = b /\ m.dst = a)

\* C16: parse_move_robust and apply_uci raise on a text of two square codes
\* that matches no legal move of the position.
C16_IllegalTextRejected ==
    (/\ op.kind \in {"parse_move_robust", "apply_uci"}
     /\ IsMoveText(op.text)
     /\ ~TextMatchesLegal(pos, op.text))
    => op.out = {}

\* a setup token <Color><File><Rank>: three characters, W or B, a square code
IsSetupToken(t) ==
    Len(t) = 3 /\ t[1] \in {"W", "B"} /\ IsSquareCode(SubSeq(t, 2, 3))

\* C17: an import of a token list that holds a token which is not
\* <Color><File><Rank> fails and gives no Position, whichever importer reads
\* it.
C17_MalformedTokenFails ==
    (/\ op.kind \in {"from_setup_tokens", "from_setup_line", "parse_setup"}
     /\ \E i \in 1 .. Len(op.tokens) : ~IsSetupToken(op.tokens[i]))
    => op.out = {}

\* C18: parse_move_robust gives back the move m, flags included, and nothing
\* else, from move_to_str_fr(m), from that text with source and destination
\* exchanged, and from either with "-", "->" or a space put anywhere in it;
\* and no two moves that generate_moves yields for a position have the same
\* source and destination.
C18_MoveTextRoundTrip ==
    /\ op.kind = "parse_written" => op.out = {op.move}
    /\ \A m1, m2 \in Range(generate_moves(pos)) :
          (m1.src = m2.src /\ m1.dst = m2.dst) => m1 = m2

\* an en-passant move has been read back from its text written destination
\* first with "->" in it
C18_Witness ==
    /\ op.kind = "parse_written"
    /\ op.move.is_ep
    /\ Len(op.text) = 6
    /\ \E at \in 0 .. 4 :
          op.text = Insert(square_to_fr(op.move.dst) \o square_to_fr(op.move.src),
                           <<"-", ">">>, at)
    /\ op.out = {op.move}

\* ------------------------------------------------------------------------
\* Properties of the time budget
\* ------------------------------------------------------------------------
\* C19: with no clock value the budget is 150 ms; with t ms left it is 20 ms
\* up to t = 750, (t - 50) / 35 ms from there up to t = 12300, and 350 ms
\* beyond, so it lies within [20 ms, 350 ms], and the budget for one more
\* millisecond is not smaller.
C19_BudgetClamped ==
    op.kind = "compute_time_budget" =>
        IF op.time_left = {} THEN RatEq(op.out, Rat(150, 1))
        ELSE \A t \in op.time_left :
                /\ RatLE(Rat(20, 1), op.out) /\ RatLE(op.out, Rat(350, 1))
                /\ t <= 750 => RatEq(op.out, Rat(20, 1))
                /\ (t >= 750 /\ t <= 12300) => RatEq(op.out, Rat(t - 50, 35))
                /\ t >= 12300 => RatEq(op.out, Rat(350, 1))
                /\ RatLE(op.out, compute_time_budget({t + 1}))

\* a budget strictly between the floor and the ceiling has been computed
C19_Witness ==
    /\ op.kind = "compute_time_budget"
    /\ op.time_left # {}
    /\ ~RatLE(op.out, Rat(20, 1))
    /\ ~RatLE(Rat(350, 1), op.out)

\* ------------------------------------------------------------------------
\* Properties of move application on objects
\* ------------------------------------------------------------------------
\* the set objects a Position object refers to
SetsOf(h, o) == {h.objs[o].white, h.objs[o].black}

\* C20: a call of apply_move or apply_move_fixed leaves the object it is
\* given, and every other object there was, with the sets, side to move and
\* ep_target it had; the Position returned refers to no set of its input;
\* what it returns is the value apply_move (apply_move_fixed) gives; and
\* after any number of such calls the root is the position it was.
C20_InputNotMutated ==
    [][op'.kind \in {"apply_move", "apply_move_fixed"} =>
        /\ \A o \in 1 .. Len(heap.objs) :
              /\ heap'.objs[o] = heap.objs[o]
              /\ PositionOf(heap', o) = PositionOf(heap, o)
        /\ SetsOf(heap', op'.ret) \cap SetsOf(heap, op'.arg) = {}
        /\ PositionOf(heap', op'.ret) =
              IF op'.kind = "apply_move"
              THEN apply_move(PositionOf(heap, op'.arg), op'.move)
              ELSE apply_move_fixed(PositionOf(heap, op'.arg), op'.move)
        /\ PositionOf(heap', 1) = pos]_vars

\* apply_move_fixed has made an en-passant capture on a position that an
\* earlier call returned
C20_Witness ==
    /\ op.kind = "apply_move_fixed"
    /\ op.move.is_ep
    /\ op.arg > 1
    /\ PositionOf(heap, 1) = pos

\* ------------------------------------------------------------------------
\* Properties of the fingerprint
\* ------------------------------------------------------------------------
\* the four components of a Position
Components(p) == <<p.white, p.black, p.turn, p.ep_target>>

\* C21: two Position objects that agree on white, black, side to move and
\* ep_target have the same zobrist_key, whether apply_move (the caller's
\* positions) or apply_move_fixed (the positions of the search) built them;
\* and with no ep_target the key folds in nothing beyond the squares and the
\* side to move.
C21_KeyOfComponentsOnly ==
    \A o1, o2 \in 1 .. Len(heap.objs) :
        /\ Components(PositionOf(heap, o1)) = Components(PositionOf(heap, o2))
              => zobrist_key(PositionOf(heap, o1)) = zobrist_key(PositionOf(heap, o2))
        /\ PositionOf(heap, o1).ep_target = {}
              => zobrist_key(PositionOf(heap, o1)).extra.kind = "none"

\* ------------------------------------------------------------------------
\* Properties of the first ply
\* ------------------------------------------------------------------------
\* C22: winner reports no winner on Position.initial() and on every position
\* that apply_move gives from it for a move generate_moves yields.
C22_NoWinnerAtStart ==
    ply <= 1 => winner(pos) = {}

\* a double step has been played from the initial position
C22_Witness ==
    /\ ply = 1
    /\ \E q \in prev, m \in mv : q = initial /\ m.is_double
    /\ pos.ep_target # {}
    /\ winner(pos) = {}

\* ------------------------------------------------------------------------
\* Properties of a game
\* ------------------------------------------------------------------------
\* C23: reset_tt, after any searches, leaves the table empty and NODES,
\* TT_HITS and TT_STORES at zero, and changes nothing else; a probe made
\* after a reset with no store in between misses, whatever key it asks for;
\* the entry of choose_move_iterdeep sets NODES to zero and leaves the table
\* and the other two counters as they were; and while a call runs no key
\* leaves the table unless the stores exceed the cap, and the hit and store
\* counters do not decrease.
C23_ResetClearsCallKeeps ==
    [][/\ op'.kind = "reset" /\ op'.n # op.n =>
            /\ TT' = EmptyTT /\ TT_others' = 0
            /\ NODES' = 0 /\ TT_HITS' = 0 /\ TT_STORES' = 0
            /\ UNCHANGED <<pos, prev, mv, ply, clock, pc, cur_depth, best,
                           max_depth, result, heap>>
       /\ op'.kind = "probe" /\ op.kind = "reset" /\ TT_STORES = 0 =>
            /\ ~op'.out.hit /\ op'.out.value = {}
            /\ op'.out.alpha = op'.alpha /\ op'.out.beta = op'.beta
            /\ TT_HITS' = TT_HITS
       /\ pc = "idle" /\ pc' = "loop" =>
            /\ NODES' = 0
            /\ TT' = TT /\ TT_others' = TT_others
            /\ TT_HITS' = TT_HITS /\ TT_STORES' = TT_STORES
       /\ pc = "loop" =>
            /\ \/ DOMAIN TT \subseteq DOMAIN TT'
               \/ LenBefore + (TT_STORES' - TT_STORES) > TT_MAX_SIZE
            /\ TT_HITS' >= TT_HITS /\ TT_STORES' >= TT_STORES]_vars

\* the table has been reset after the second search of a game, one that ran
\* two depths, and a probe of the key of the position has missed
C23_Witness ==
    /\ op.kind = "probe" /\ op.n = 2
    /\ op.key = zobrist_key(pos)
    /\ ~op.out.hit
    /\ ply = 1
    /\ pc = "returned" /\ cur_depth > 2
    /\ TT = EmptyTT /\ NODES = 0 /\ TT_HITS = 0 /\ TT_STORES = 0

\* ------------------------------------------------------------------------
\* Properties of the successor the search expands
\* ------------------------------------------------------------------------
\* C24: for every position and every move generate_moves yields for it, the
\* Position apply_move_fixed returns has the white set, black set, side to
\* move and ep_target of the Position apply_move returns.
C24_SearchFollowsNoRemoval ==
    op.kind = "apply_move_fixed" =>
        Components(PositionOf(heap, op.ret)) =
            Components(apply_move(PositionOf(heap, op.arg), op.move))

\* ------------------------------------------------------------------------
\* Properties of one node
\* ------------------------------------------------------------------------
\* the table and the globals as they were when the node was entered
NodeBefore ==
    [TT |-> IF op.before = {} THEN EmptyTT
            ELSE TTPut(EmptyTT, zobrist_key(pos), CHOOSE e \in op.before : TRUE),
     clock |-> op.clock, NODES |-> 0, TT_HITS |-> 0, TT_STORES |-> 0,
     TT_others |-> 0]

\* the call on the node went as far as its _tt_store and the store wrote:
\* the deadline had not passed, the position was not terminal, the depth was
\* positive, the probe supplied no value, and the table held no deeper entry
NodeStores ==
    /\ op.kind \in {"alphabeta", "search_depth"}
    /\ \A o \in op.before : op.depth >= o.depth
    /\ \/ /\ op.kind = "alphabeta"
          /\ op.clock # 0
          /\ winner(pos) = {}
          /\ op.depth >= 1
          /\ _tt_probe(NodeBefore, zobrist_key(pos), op.depth, op.alpha,
                       op.beta).value = {}
       \/ /\ op.kind = "search_depth"
          /\ generate_moves(pos) # <<>>

\* the entry under the key of the node
NodeEntry == TTGet(TT, zobrist_key(pos))

\* C25 as stated: a value below the original alpha is stored as an upper
\* bound, a value at or above the original beta as a lower bound, and every
\* other value, one equal to the original alpha included, as exact.
C25_Original ==
    NodeStores =>
        \A e \in NodeEntry :
            e.flag = IF ScoreLT(op.val, op.alpha) THEN UPPER
                     ELSE IF ScoreLE(op.beta, op.val) THEN LOWER
                     ELSE EXACT

\* C25, amended: the entry a node stores has the depth and the value of the
\* call and is flagged against the window the node was entered with, not the
\* one the probe tightened: a value at or below the original alpha is an
\* upper bound, a value at or above the original beta a lower bound, and
\* every value strictly between them exact.
C25_StoreFlagOriginalWindow ==
    NodeStores =>
        /\ NodeEntry # {}
        /\ \A e \in NodeEntry :
              /\ e.depth = op.depth
              /\ e.value = op.val
              /\ e.flag = IF ScoreLE(op.val, op.alpha) THEN UPPER
                          ELSE IF ScoreLE(op.beta, op.val) THEN LOWER
                          ELSE EXACT

\* a node entered with alpha at the win score has resolved to that score and
\* stored it as an upper bound
C25_Witness ==
    /\ NodeStores
    /\ op.kind = "alphabeta"
    /\ op.val = op.alpha
    /\ op.val = WIN_SCORE
    /\ \E e \in NodeEntry : e.flag = UPPER /\ e.value = op.val

\* a probe has raised alpha above the value the node then resolved to, and
\* the value, above the original alpha, has been stored as exact
C25_ProbeTightened ==
    /\ NodeStores
    /\ \E o \in op.before :
          /\ o.flag = LOWER
          /\ ScoreLT(op.alpha, o.value)
          /\ ScoreLE(op.val, o.value)
    /\ \E e \in NodeEntry : e.flag = EXACT

\* ------------------------------------------------------------------------
\* Properties of a probe that hits
\* ------------------------------------------------------------------------
\* C26: a probe of a key whose entry has at least the depth asked for counts
\* one hit and reports it; an exact entry leaves the window as it is and
\* supplies its value; a lower bound makes alpha the greater of alpha and the
\* value and leaves beta; an upper bound makes beta the smaller of beta and
\* the value and leaves alpha; the entry's value is supplied exactly when the
\* entry is exact or the new alpha is at least the new beta; and the new
\* window lies within the old one.
C26_ProbeOnHit ==
    [][(op'.kind = "probe" /\ \E e \in OpEntryBefore : e.depth >= op'.depth) =>
        \A e \in OpEntryBefore :
            /\ op'.out.hit
            /\ TT_HITS' = TT_HITS + 1
            /\ e.flag = EXACT =>
                  /\ op'.out.alpha = op'.alpha /\ op'.out.beta = op'.beta
                  /\ op'.out.value = {e.value}
            /\ e.flag = LOWER =>
                  /\ op'.out.alpha =
                        IF ScoreLT(op'.alpha, e.value) THEN e.value ELSE op'.alpha
                  /\ op'.out.beta = op'.beta
            /\ e.flag = UPPER =>
                  /\ op'.out.beta =
                        IF ScoreLT(e.value, op'.beta) THEN e.value ELSE op'.beta
                  /\ op'.out.alpha = op'.alpha
            /\ op'.out.value # {} <=>
                  (e.flag = EXACT \/ ScoreLE(op'.out.beta, op'.out.alpha))
            /\ op'.out.value \subseteq {e.value}
            /\ ScoreLE(op'.alpha, op'.out.alpha)
            /\ ScoreLE(op'.out.beta, op'.beta)]_vars

\* a probe has hit an upper bound below its alpha: beta came down to the
\* value, the window closed and the value was supplied
C26_Witness ==
    /\ op.kind = "probe"
    /\ op.out.hit
    /\ \E e \in TTGet(TT, op.key) :
          /\ e.flag = UPPER
          /\ ScoreLT(e.value, op.alpha)
          /\ op.out.beta = e.value
          /\ op.out.value = {e.value}
    /\ op.out.alpha = op.alpha

\* ------------------------------------------------------------------------
\* Properties of the score of a terminal position
\* ------------------------------------------------------------------------
\* C27 as stated: _alphabeta on a position for which winner reports a side
\* returns 10**12 if white has won and -10**12 if black has won, at every
\* depth and whether or not the deadline has passed.
C27_Original ==
    (op.kind = "alphabeta" /\ winner(pos) # {}) =>
        op.val = IF winner(pos) = {"W"} THEN WIN_SCORE ELSE LOSS_SCORE

\* C27, amended: _alphabeta on a position for which winner reports a side,
\* entered before the deadline, returns 10**12 if white has won and -10**12
\* if black has won, at every depth, for every window and whatever the table
\* holds, and stores nothing; entered at or after the deadline it returns the
\* static evaluation of the position.
C27_TerminalScore ==
    (op.kind = "alphabeta" /\ winner(pos) # {}) =>
        /\ op.clock # 0 =>
              op.val = IF winner(pos) = {"W"} THEN WIN_SCORE ELSE LOSS_SCORE
        /\ op.clock = 0 => op.val = Heuristic(evaluate(pos))
        /\ NodeEntry = op.before
        /\ TT_STORES = 0 /\ TT_HITS = 0 /\ NODES = 1

\* _alphabeta has been entered before the deadline with depth 0 on a
\* position that black has won by wiping white out, with an exact entry of
\* another value in the table under its key
C27_Witness ==
    /\ op.kind = "alphabeta"
    /\ winner(pos) = {"B"}
    /\ pos.white = {}
    /\ op.clock # 0
    /\ op.depth = 0
    /\ op.val = LOSS_SCORE
    /\ \E e \in op.before : e.flag = EXACT /\ e.value # op.val

\* ------------------------------------------------------------------------
\* Properties of the move order
\* ------------------------------------------------------------------------
\* the order as the claim states it: the remembered best move of the table
\* if it is a move of the position, then the other captures, then the other
\* quiet moves, each group as generate_moves yields it
ClaimedOrder(tt, p) ==
    LET g == generate_moves(p)
        opp == IF p.turn = "W" THEN p.black ELSE p.white
        remembered == {m \in Range(g) :
                          \E e \in TTGet(tt, zobrist_key(p)) : e.best_move = {m}}
        capture(m) == (m.dst \in opp \/ m.is_ep) /\ m \notin remembered
        quiet(m) == ~(m.dst \in opp \/ m.is_ep) /\ m \notin remembered
        is_remembered(m) == m \in remembered
    IN  SelectSeq(g, is_remembered) \o SelectSeq(g, capture) \o SelectSeq(g, quiet)

\* the deadline lets the node search one child and no more
OneChildSearched ==
    \/ op.kind = "alphabeta" /\ op.clock \in {2, 3}
    \/ op.kind = "search_depth" /\ op.clock = 2

\* C28: the list a node searches is the remembered best move of the table
\* (when it is a move of the position), then the remaining captures, then
\* the remaining quiet moves, in generator order; it holds every move
\* generate_moves yields once; and a node that the deadline lets search one
\* child only has searched the first move of that list: it is the move the
\* root search returns and the best move the node stores.
C28_SearchOrder ==
    /\ OrderedMoves(TT, pos) = ClaimedOrder(TT, pos)
    /\ Range(OrderedMoves(TT, pos)) = Range(generate_moves(pos))
    /\ Len(OrderedMoves(TT, pos)) = Len(generate_moves(pos))
    /\ Cardinality(Range(OrderedMoves(TT, pos))) = Len(OrderedMoves(TT, pos))
    /\ (NodeStores /\ OneChildSearched) =>
          /\ \A e \in NodeEntry :
                e.best_move = {ClaimedOrder(NodeBefore.TT, pos)[1]}
          /\ op.kind = "search_depth" =>
                op.mv = {ClaimedOrder(NodeBefore.TT, pos)[1]}

\* an interior node whose table entry remembers a quiet move, in a position
\* that has a capture, has searched that move first
C28_Witness ==
    /\ NodeStores /\ OneChildSearched
    /\ op.kind = "alphabeta"
    /\ \E o \in op.before : \E m \in Range(generate_moves(pos)) :
          /\ o.best_move = {m}
          /\ ~_is_capture(pos, m)
          /\ \E e \in NodeEntry : e.best_move = {m}
    /\ \E m \in Range(generate_moves(pos)) : _is_capture(pos, m)

\* ------------------------------------------------------------------------
\* Properties of the order of the generated moves
\* ------------------------------------------------------------------------
\* the place of a move among the moves of its pawn: forward one, forward
\* two, capture toward file a (the left of the board as printed), capture
\* toward file h, en-passant capture
MoveKind(p, m) ==
    IF m.is_ep THEN 5
    ELSE IF m.is_double THEN 2
    ELSE IF file_of(m.dst) = file_of(m.src) THEN 1
    ELSE IF file_of(m.dst) < file_of(m.src) THEN 3
    ELSE 4

C29_EnPassantLast ==
    \E i \in 1 .. Len(generate_moves(pos)) - 1 :
        LET g == generate_moves(pos)
        IN  /\ g[i].src = g[i + 1].src
            /\ MoveKind(pos, g[i]) = 4
            /\ g[i + 1].is_ep
            /\ file_of(g[i + 1].dst) < file_of(g[i].src)

\* ------------------------------------------------------------------------
\* Properties of the iterative-deepening loop
\* ------------------------------------------------------------------------
\* what one step of a call may do
DeepeningStep ==
    /\ (pc = "idle" /\ pc' = "loop") => cur_depth' = 1
    /\ pc = "loop" =>
          \/ /\ clock # 0
             /\ cur_depth <= max_depth
             /\ pc' = "loop"
             /\ cur_depth' = cur_depth + 1
             /\ max_depth' = max_depth
             /\ TT' = _search_depth(Tick(Globals), pos, cur_depth).m.TT
             /\ NODES' = _search_depth(Tick(Globals), pos, cur_depth).m.NODES
          \/ /\ clock = 0 \/ cur_depth > max_depth
             /\ pc' = "select"
             /\ UNCHANGED <<TT, NODES, TT_HITS, TT_STORES, cur_depth, best>>
    /\ pc = "select" =>
          /\ pc' \in {"returned", "raised"}
          /\ UNCHANGED <<TT, NODES, TT_HITS, TT_STORES, cur_depth>>
          /\ pc' = "returned" => result' # {}
          /\ pc' = "raised" => generate_moves(pos) = <<>>

\* C30: a call of choose_move_iterdeep searches the root at depths 1, 2,
\* 3, ... one after the other, runs no root search when the deadline check
\* before it finds the deadline passed, never searches deeper than
\* max_depth, and ends with a move or with the no-legal-moves error.
C30_IterativeDeepening ==
    /\ [][DeepeningStep]_vars
    /\ [](pc \in {"loop", "select"} => cur_depth \in 1 .. max_depth + 1)
    /\ (pc = "loop") ~> CallEnded

\* a call searched every depth up to max_depth and returned a move
C30_Witness ==
    /\ pc = "returned"
    /\ max_depth > 1
    /\ cur_depth = max_depth + 1
    /\ result # {}
    /\ NODES > 0

\* a call found the deadline passed after its first root search and returned
C30_StoppedByDeadline ==
    /\ pc = "returned"
    /\ clock = 0
    /\ cur_depth = 2
    /\ cur_depth <= max_depth

\* ------------------------------------------------------------------------
\* evaluate called on one position
\* ------------------------------------------------------------------------
\* the squares of a set of ranks
RankSquares(R) == {sq \in Squares : rank_of(sq) \in R}

\* boards with whole ranks of white pawns, the other ranks empty or filled
\* with black pawns: up to all 64 squares, by either colour
FilledBoards ==
    UNION {{Position(RankSquares(Rw), RankSquares(Rb), turn, {}) :
               Rb \in {{}, (1 .. 8) \ Rw}, turn \in Colors} :
           Rw \in SUBSET (1 .. 8)}

\* the positions evaluate is called on: the initial position, the setups of
\* a few pawns and the filled boards, with disjoint occupancy
EvalPositions ==
    {initial} \cup FilledBoards \cup
    {p \in {from_setup_tokens(tokens, turn) :
               tokens \in TokenSets \cup OrderSetups, turn \in Colors} :
        p.white \cap p.black = {}}

\* `evaluate(pos)` called directly
Evaluate ==
    /\ op = NoOp
    /\ op' = [kind |-> "evaluate", n |-> 1, val |-> evaluate(pos)]
    /\ UNCHANGED <<TT, NODES, TT_HITS, TT_STORES, clock, pc, cur_depth, best,
                   max_depth, result, TT_others, heap>>
    /\ UNCHANGED game

InitEval ==
    /\ pos \in EvalPositions
    /\ prev = {}
    /\ mv = {}
    /\ ply = 0
    /\ SearchIdle

NextEval == Evaluate

SpecEval == InitEval /\ [][NextEval]_vars

\* ------------------------------------------------------------------------
\* Properties of the evaluator
\* ------------------------------------------------------------------------
\* the pawns of S on rank r
OnRank(S, r) == Cardinality({sq \in S : rank_of(sq) = r})

\* the ranks the pawns of S have advanced from their starting rank, summed:
\* rank - 2 for a white pawn, 7 - rank for a black one
Advanced(S, colour) ==
    LET upto[r \in 0 .. 8] ==
            IF r = 0 THEN 0
            ELSE upto[r - 1] +
                 OnRank(S, r) * (IF colour = "W" THEN r - 2 ELSE 7 - r)
    IN  upto[8]

\* the position with the colours exchanged and the board turned over
ColourMirror(p) ==
    LET flip(sq) == sq_index(file_of(sq), 9 - rank_of(sq))
    IN  Position({flip(sq) : sq \in p.black}, {flip(sq) : sq \in p.white},
                 IF p.turn = "W" THEN "B" ELSE "W",
                 {flip(sq) : sq \in p.ep_target})

Evaluated == op.kind = "evaluate"

\* C31 as stated: evaluate is 100 x the pawn difference + 3 x the difference
\* of the ranks advanced from the starting rank, is 0 on the initial
\* position and changes sign under the colour mirror.
C31_Original ==
    Evaluated =>
        /\ op.val = 100 * (Cardinality(pos.white) - Cardinality(pos.black))
                    + 3 * (Advanced(pos.white, "W") - Advanced(pos.black, "B"))
        /\ pos = initial => op.val = 0
        /\ evaluate(ColourMirror(pos)) = 0 - op.val

\* C31: evaluate is 100 x the pawn difference + 3 x the difference of the
\* progress sums, where the progress of a pawn is its rank for white and
\* 9 - rank for black: 2 on the starting rank, two more than the ranks
\* advanced, so that a pawn weighs 106 + 3 x the ranks it has advanced; it
\* is 0 on the initial position and changes sign under the colour mirror.
C31_EvaluateFormula ==
    Evaluated =>
        /\ op.val = 106 * (Cardinality(pos.white) - Cardinality(pos.black))
                    + 3 * (Advanced(pos.white, "W") - Advanced(pos.black, "B"))
        /\ pos = initial => op.val = 0
        /\ evaluate(ColourMirror(pos)) = 0 - op.val

\* evaluate was called on a position with more white pawns than black ones,
\* one of them off its starting rank
C31_Witness ==
    /\ Evaluated
    /\ Cardinality(pos.white) > Cardinality(pos.black)
    /\ pos.black # {}
    /\ Advanced(pos.white, "W") > 0
    /\ op.val > 0

\* evaluate was called on the initial position
C31_InitialEvaluated == Evaluated /\ pos = initial

\* C32: on every position with disjoint occupancy, up to a full board,
\* evaluate is below 10^4 in size (a pawn weighs at most 124), so it lies
\* strictly between the terminal scores -10^12 and +10^12, which lie
\* strictly inside the initial window -10^18 .. +10^18.
C32_HeuristicBelowSentinel ==
    Evaluated =>
        /\ abs(op.val) < 10000
        /\ abs(op.val) <= 124 * Cardinality(pos.white \cup pos.black)
        /\ ScoreLT(Heuristic(op.val), WIN_SCORE)
        /\ ScoreLT(LOSS_SCORE, Heuristic(op.val))
        /\ ScoreLT(WIN_SCORE, POS_INF)
        /\ ScoreLT(NEG_INF, LOSS_SCORE)

\* evaluate was called on the board with a white pawn on each of the 64
\* squares, where it is largest
C32_Witness ==
    /\ Evaluated
    /\ Cardinality(pos.white) = 64
    /\ op.val = 7264

\* ------------------------------------------------------------------------
\* Properties of what the search stores
\* ------------------------------------------------------------------------
\* the entries a search stored: every entry but the ones an earlier game
\* left in the table
StoredBySearch == {k \in DOMAIN TT : TT[k] \notin ForeignEntries}

\* C33: only established results enter the table: a node whose move loop
\* the deadline cut short stores nothing, so no entry stored by the search
\* has the placeholder -10^18 or +10^18 as its value, or no best move.
C33_OnlyEstablishedResults ==
    \A k \in StoredBySearch :
        /\ TT[k].value \notin {NEG_INF, POS_INF}
        /\ TT[k].best_move # {}

\* ------------------------------------------------------------------------
\* Iterative deepening from an empty table with no deadline, each root
\* search recorded
\* ------------------------------------------------------------------------
\* setups of six pawns in which, six plies deep, a position is reached
\* again two plies further from the root
DeepSetups ==
    { {Tok("W", 6, 4), Tok("W", 7, 2), Tok("W", 4, 4),
       Tok("B", 7, 7), Tok("B", 4, 7), Tok("B", 5, 6)},
      {Tok("W", 4, 3), Tok("W", 7, 3), Tok("W", 5, 2),
       Tok("B", 6, 5), Tok("B", 7, 6), Tok("B", 5, 7)} }

DeepenRoots ==
    {from_setup_tokens(tokens, turn) :
        tokens \in SearchSetups \cup DeepSetups, turn \in Colors}

\* one pass of the loop of choose_move_iterdeep, with what _search_depth
\* returned kept in op
Deepen ==
    /\ pc = "loop"
    /\ cur_depth <= max_depth
    /\ clock # 0
    /\ LET r == _search_depth(Tick(Globals), pos, cur_depth)
       IN  /\ SearchDepthDone(r)
           /\ op' = [kind |-> "search_depth", n |-> cur_depth,
                     depth |-> cur_depth, val |-> r.val, mv |-> r.mv]
    /\ cur_depth' = cur_depth + 1
    /\ UNCHANGED <<pc, max_depth, result, heap>>
    /\ UNCHANGED game

InitDeepen ==
    /\ pos \in DeepenRoots
    /\ prev = {}
    /\ mv = {}
    /\ ply = 0
    /\ TT = EmptyTT
    /\ NODES = 0
    /\ TT_HITS = 0
    /\ TT_STORES = 0
    /\ clock = NoDeadline
    /\ pc = "loop"
    /\ cur_depth = 1
    /\ best = {}
    /\ max_depth = MaxDeepen
    /\ result = {}
    /\ TT_others = 0
    /\ op = NoOp
    /\ heap = NoHeap

NextDeepen == Deepen

SpecDeepen == InitDeepen /\ [][NextDeepen]_vars

\* ------------------------------------------------------------------------
\* Properties of the search against plain minimax
\* ------------------------------------------------------------------------
\* the largest and the smallest of a set of scores
ScoreMaxOf(V) == CHOOSE v \in V : \A u \in V : ScoreLE(u, v)

ScoreMinOf(V) == CHOOSE v \in V : \A u \in V : ScoreLE(v, u)

\* plain minimax to a depth: white maximizes, black minimizes, over the
\* successors the search expands, with its terminal scores and evaluator
RECURSIVE Minimax(_, _)
Minimax(p, depth) ==
    IF winner(p) # {}
    THEN IF winner(p) = {"W"} THEN WIN_SCORE ELSE LOSS_SCORE
    ELSE IF depth <= 0 \/ generate_moves(p) = <<>>
    THEN Heuristic(evaluate(p))
    ELSE LET V == {Minimax(apply_move_fixed(p, m), depth - 1) :
                      m \in Range(generate_moves(p))}
         IN  IF p.turn = "W" THEN ScoreMaxOf(V) ELSE ScoreMinOf(V)

\* the root search of op returned the minimax value of its depth and a move
\* that attains it
RootIsMinimax ==
    /\ op.val = Minimax(pos, op.depth)
    /\ op.mv # {}
    /\ \A m \in op.mv :
          /\ m \in Range(generate_moves(pos))
          /\ Minimax(apply_move_fixed(pos, m), op.depth - 1) = op.val

RootSearched == op.kind = "search_depth" /\ winner(pos) = {}

\* C34 as stated: at every depth d, the root search run after the searches
\* of depth 1 .. d-1 on a table empty at the start, with no deadline,
\* returns the value of plain depth-d minimax and a move that attains it.
C34_Original == RootSearched => RootIsMinimax

\* C34: the same for every depth d <= 5, where every entry the search reads
\* was stored at the depth it is read at; from depth 6 on a position reached
\* again two plies further from the root reads the entry of the deeper
\* search, and value and move may differ from plain depth-d minimax.
C34_MinimaxUpToFive == (RootSearched /\ op.depth <= 5) => RootIsMinimax

\* the depth-5 search of a six-pawn root returned, having pruned and read the
\* table
C34_Witness ==
    /\ RootSearched
    /\ op.depth = 5
    /\ Cardinality(pos.white \cup pos.black) = 6
    /\ TT_HITS > 0
    /\ RootIsMinimax

\* ------------------------------------------------------------------------
\* Properties of the setup importers
\* ------------------------------------------------------------------------
\* C35: no setup importer returns a position whose white and black sets
\* share a square: a setup naming one square for a white and a black pawn
\* is rejected.
C35_ImportKeepsOccupancyDisjoint ==
    op.kind \in {"from_setup_tokens", "from_setup_line", "parse_setup"} =>
        \A p \in op.out : p.white \cap p.black = {}

\* ------------------------------------------------------------------------
\* Play from the initial position on two files: the legal moves of the pawns
\* standing on files a and b, for more plies than the play on all files
\* ------------------------------------------------------------------------
LaneFiles == {0, 1}

PlayLanes ==
    /\ ply < MaxLanePly
    /\ \E m \in Range(generate_moves(pos)) :
          /\ file_of(m.src) \in LaneFiles
          /\ pos' = apply_move(pos, m)
          /\ prev' = {pos}
          /\ mv' = {m}
    /\ ply' = ply + 1
    /\ UNCHANGED search

NextLanes == PlayLanes

SpecLanes == Init /\ [][NextLanes]_vars

\* ------------------------------------------------------------------------
\* Properties of ep_target in play from the initial position
\* ------------------------------------------------------------------------
\* C36: in play from the initial position, whenever ep_target is set it is
\* an empty square, on rank 3 with black to move or on rank 6 with white to
\* move, and the square beyond it (rank 4, rank 5) holds a pawn of the side
\* that has just moved; every en-passant move generated lands on an empty
\* square, the ep_target.
C36_EpTargetShape ==
    /\ \A ep \in pos.ep_target :
          /\ ep \notin occupied(pos)
          /\ \/ /\ pos.turn = "B"
                /\ rank_of(ep) = 3
                /\ ep + 8 \in pos.white
             \/ /\ pos.turn = "W"
                /\ rank_of(ep) = 6
                /\ ep - 8 \in pos.black
    /\ \A i \in 1 .. Len(generate_moves(pos)) :
          generate_moves(pos)[i].is_ep =>
              /\ generate_moves(pos)[i].dst \notin occupied(pos)
              /\ generate_moves(pos)[i].dst \in pos.ep_target

\* a double step has just been played beside a pawn of the other side, and
\* an en-passant move is generated
C36_Witness ==
    /\ ply > 0
    /\ pos.ep_target # {}
    /\ \E i \in 1 .. Len(generate_moves(pos)) : generate_moves(pos)[i].is_ep

\* ------------------------------------------------------------------------
\* A play loop: `w = winner(pos)`, return when there is one, else apply a
\* legal move (play_game of benchmark_budgets.py, with any legal move for
\* the move an agent picks).  Games from a setup are played to their end,
\* the game on the full board for MaxPly - 1 plies.
\* ------------------------------------------------------------------------
PlayChecked ==
    /\ winner(pos) = {}
    /\ Cardinality(occupied(pos)) > 8 => ply < MaxPly - 1
    /\ \E m \in Range(generate_moves(pos)) :
          /\ pos' = apply_move(pos, m)
          /\ prev' = {pos}
          /\ mv' = {m}
    /\ ply' = ply + 1
    /\ UNCHANGED search

InitPlayLoop ==
    /\ \/ pos = initial
       \/ \E tokens \in OrderSetups \cup SearchSetups, turn \in Colors :
             pos = from_setup_tokens(tokens, turn)
    /\ prev = {}
    /\ mv = {}
    /\ ply = 0
    /\ SearchIdle

NextPlayLoop == PlayChecked

\* what every PlayChecked step does to the ply count: a position without a
\* winner has a legal move, so PlayChecked can be taken exactly when this can
PlayCheckedPass ==
    /\ winner(pos) = {}
    /\ Cardinality(occupied(pos)) > 8 => ply < MaxPly - 1
    /\ ply' = ply + 1

\* the loop is straight-line code: when it can make its next move it does
SpecPlayLoop ==
    InitPlayLoop /\ [][NextPlayLoop]_vars /\ WF_ply(PlayCheckedPass)

\* ------------------------------------------------------------------------
\* Properties of the length of a game
\* ------------------------------------------------------------------------
\* the pawns of a colour
PawnsOf(p, colour) == IF colour = "W" THEN p.white ELSE p.black

\* the steps the pawns of a position still have to their last rank
StepsLeft(p) ==
    (6 * Cardinality(p.white) - Advanced(p.white, "W")) +
    (6 * Cardinality(p.black) - Advanced(p.black, "B"))

\* a ply raises the ranks advanced by the mover's pawns, adds no pawn and
\* lowers the steps left
PlyAdvances ==
    pos' # pos =>
        /\ Advanced(PawnsOf(pos', pos.turn), pos.turn)
              > Advanced(PawnsOf(pos, pos.turn), pos.turn)
        /\ Cardinality(pos'.white) <= Cardinality(pos.white)
        /\ Cardinality(pos'.black) <= Cardinality(pos.black)
        /\ StepsLeft(pos') < StepsLeft(pos)
        /\ ply' = ply + 1

C38_BudgetWithinClock ==
    (op.kind = "compute_time_budget" /\ op.time_left # {}) =>
        \A t \in op.time_left :
            /\ RatLE(op.out, Rat(t, 1))
            /\ t > 50 => RatLE(op.out, Rat(t - 50, 1))

\* ------------------------------------------------------------------------
\* A generated move written as UCI text and applied from the text
\* ------------------------------------------------------------------------
\* game.move_to_uci
move_to_uci(m) == square_to_fr(m.src) \o square_to_fr(m.dst)

\* the positions a move is written on: the search and order setups played
\* on for up to MaxRootPly plies, the initial position, and the setups of
\* up to MaxPawns pawns
UciRoots ==
    SearchRoots \cup {initial} \cup
    PlayedFrom({from_setup_tokens(tokens, turn) :
                   tokens \in OrderSetups, turn \in Colors}, MaxRootPly) \cup
    {p \in {from_setup_tokens(tokens, turn) :
               tokens \in TokenSets, turn \in Colors} :
        p.white \cap p.black = {}}

\* infer_move and apply_uci on the text of a move that generate_moves yields
ApplyWritten ==
    /\ op = NoOp
    /\ \E m \in Range(generate_moves(pos)) :
          op' = [kind |-> "apply_written", n |-> 1, move |-> m,
                 text |-> move_to_uci(m),
                 inferred |-> infer_move(pos, m.src, m.dst),
                 out |-> apply_uci(pos, move_to_uci(m))]
    /\ TextDone

InitUci ==
    /\ pos \in UciRoots
    /\ prev = {}
    /\ mv = {}
    /\ ply = 0
    /\ SearchIdle

NextUci == ApplyWritten

SpecUci == InitUci /\ [][NextUci]_vars

\* ------------------------------------------------------------------------
\* Properties of the flag inference
\* ------------------------------------------------------------------------
\* C39: for a move m that generate_moves yields, infer_move on its source
\* and destination returns m with its en-passant and double-step flags, and
\* apply_uci on the UCI text of m returns the position apply_move gives.
C39_InferredIsGenerated ==
    op.kind = "apply_written" =>
        /\ op.inferred = {op.move}
        /\ op.out = {apply_move(pos, op.move)}

\* an en-passant move was written and applied from its text
C39_Witness ==
    /\ op.kind = "apply_written"
    /\ op.move.is_ep
    /\ op.out # {}

\* a double step of black was written and applied from its text
C39_BlackDouble ==
    /\ op.kind = "apply_written"
    /\ op.move.is_double
    /\ pos.turn = "B"
    /\ \A q \in op.out : q.ep_target # {}

\* ------------------------------------------------------------------------
\* The network client (client.py): its own text functions and its own
\* board.  A square of the grid holds {} (None), {"W"} or {"B"}; grid[y][x]
\* is the square of file x and rank y, both counted from 0.
\* ------------------------------------------------------------------------
RANKS == <<"1", "2", "3", "4", "5", "6", "7", "8">>

PROMO_CHARS == {"q", "Q", "r", "R", "b", "B", "n", "N"}

\* str.index(ch): {} when it raises ValueError
IndexIn(str, ch) ==
    IF \E i \in 1 .. Len(str) : str[i] = ch
    THEN {(CHOOSE i \in 1 .. Len(str) :
              str[i] = ch /\ \A j \in 1 .. i - 1 : str[j] # ch) - 1}
    ELSE {}

sq_to_xy(sq) ==
    {<<f, r>> : f \in IndexIn(FILES, sq[1]), r \in IndexIn(RANKS, sq[2])}

xy_to_sq(x, y) == <<FILES[x + 1], RANKS[y + 1]>>

is_move(s) ==
    /\ Len(s) \in {4, 5}
    /\ Len(s) = 5 => s[5] \in PROMO_CHARS
    /\ s[1] \in Range(FILES) /\ s[3] \in Range(FILES)
    /\ s[2] \in Range(RANKS) /\ s[4] \in Range(RANKS)

move_core(s) == SubSeq(s, 1, IF Len(s) < 4 THEN Len(s) ELSE 4)

\* client.Move
to_str(m) == xy_to_sq(m.fx, m.fy) \o xy_to_sq(m.tx, m.ty)

ClientMove(fx, fy, tx, ty) == [fx |-> fx, fy |-> fy, tx |-> tx, ty |-> ty]

\* PawnBoard.clear
ClearGrid == [y \in 0 .. 7 |-> [x \in 0 .. 7 |-> {}]]

set_piece(grid, x, y, p) == [grid EXCEPT ![y][x] = p]

piece_at(grid, x, y) == grid[y][x]

reset_to_start ==
    [y \in 0 .. 7 |->
        [x \in 0 .. 7 |-> IF y = 1 THEN {"W"} ELSE IF y = 6 THEN {"B"} ELSE {}]]

\* PawnBoard.load_from_setup from the token i on: the grid as the loop
\* leaves it, and whether sq_to_xy raised ValueError on the way
RECURSIVE load_tokens(_, _, _)
load_tokens(grid, tokens, i) ==
    IF i > Len(tokens) THEN [grid |-> grid, raised |-> FALSE]
    ELSE LET t == tokens[i] IN
         IF Len(t) # 3 \/ t[1] \notin {"W", "B"}
         THEN load_tokens(grid, tokens, i + 1)
         ELSE IF sq_to_xy(SubSeq(t, 2, 3)) = {}
         THEN [grid |-> grid, raised |-> TRUE]
         ELSE LET xy == CHOOSE p \in sq_to_xy(SubSeq(t, 2, 3)) : TRUE IN
              load_tokens(set_piece(grid, xy[1], xy[2], {t[1]}), tokens, i + 1)

load_from_setup(tokens) == load_tokens(ClearGrid, tokens, 1)

\* the moves PawnBoard.legal_moves appends for the square (x, y)
legal_moves_of(board, side, x, y) ==
    LET g == board.grid
        opp == IF side = "W" THEN "B" ELSE "W"
        diry == IF side = "W" THEN 1 ELSE 0 - 1
        start_rank == IF side = "W" THEN 1 ELSE 6
        ny == y + diry
        ny2 == y + 2 * diry
        fwd1 == IF g[ny][x] = {} THEN <<ClientMove(x, y, x, ny)>> ELSE <<>>
        fwd2 == IF g[ny][x] = {} /\ y = start_rank /\ ny2 \in 0 .. 7
                THEN IF g[ny2][x] = {} THEN <<ClientMove(x, y, x, ny2)>> ELSE <<>>
                ELSE <<>>
        diag(dx) ==
            LET nx == x + dx IN
            IF nx \notin 0 .. 7 THEN <<>>
            ELSE IF g[ny][nx] = {opp} THEN <<ClientMove(x, y, nx, ny)>>
            ELSE IF board.diag_empty /\ g[ny][nx] = {}
                 THEN <<ClientMove(x, y, nx, ny)>>
            ELSE <<>>
    IN  IF g[y][x] # {side} \/ ny \notin 0 .. 7 THEN <<>>
        ELSE fwd1 \o fwd2 \o diag(0 - 1) \o diag(1)

RECURSIVE legal_moves_from(_, _, _)
legal_moves_from(board, side, i) ==
    IF i = 64 THEN <<>>
    ELSE legal_moves_of(board, side, i % 8, i \div 8)
            \o legal_moves_from(board, side, i + 1)

legal_moves(board, side) == legal_moves_from(board, side, 0)

\* PawnBoard.apply_move: the bool it returns and the grid it leaves
PawnBoard_apply_move(board, m, side) ==
    LET g == board.grid
        opp == IF side = "W" THEN "B" ELSE "W"
        diry == IF side = "W" THEN 1 ELSE 0 - 1
        start_rank == IF side = "W" THEN 1 ELSE 6
        dx == m.tx - m.fx
        dy == m.ty - m.fy
        target == piece_at(g, m.tx, m.ty)
        forward_ok ==
            /\ dy \in {diry, 2 * diry}
            /\ target = {}
            /\ dy = 2 * diry =>
                  /\ m.fy = start_rank
                  /\ piece_at(g, m.tx, m.fy + diry) = {}
        diagonal_ok ==
            /\ target # {side}
            /\ ~(target = {} /\ ~board.diag_empty)
            /\ ~(target # {} /\ target # {opp})
        ok == /\ piece_at(g, m.fx, m.fy) = {side}
              /\ IF dx = 0 THEN forward_ok
                 ELSE IF dx \in {0 - 1, 1} /\ dy = diry THEN diagonal_ok
                 ELSE FALSE
    IN  [ok |-> ok,
         grid |-> IF ok
                  THEN set_piece(set_piece(g, m.fx, m.fy, {}), m.tx, m.ty, {side})
                  ELSE g]

\* the Move that apply_move_str and force_apply_move_str read from a text
\* whose first four characters name two squares
MoveOfStr(s) ==
    LET c == move_core(s)
        f == CHOOSE p \in sq_to_xy(SubSeq(c, 1, 2)) : TRUE
        t == CHOOSE p \in sq_to_xy(SubSeq(c, 3, 4)) : TRUE
    IN  ClientMove(f[1], f[2], t[1], t[2])

apply_move_str(board, s, side) == PawnBoard_apply_move(board, MoveOfStr(s), side)

force_apply_move_str(board, s, side) ==
    LET m == MoveOfStr(s) IN
    set_piece(set_piece(board.grid, m.fx, m.fy, {}), m.tx, m.ty, {side})

\* the key pick_move sorts by
pick_score(m, side) == IF side = "W" THEN m.ty ELSE 7 - m.ty

\* list.sort(key=score, reverse=True): stable, so moves of one score keep
\* their order
RECURSIVE sorted_by_score(_, _, _)
sorted_by_score(moves, side, s) ==
    IF s < 0 THEN <<>>
    ELSE SelectSeq(moves, LAMBDA m : pick_score(m, side) = s)
            \o sorted_by_score(moves, side, s - 1)

\* pick_move: the moves rng.choice can return; {} for None
pick_move(board, side) ==
    LET moves == legal_moves(board, side)
        goal_rank == IF side = "W" THEN 7 ELSE 0
        opp == IF side = "W" THEN "B" ELSE "W"
        winners == SelectSeq(moves, LAMBDA m : m.ty = goal_rank)
        caps == SelectSeq(moves, LAMBDA m : piece_at(board.grid, m.tx, m.ty) = {opp})
        by_score == sorted_by_score(moves, side, 7)
        top == SubSeq(by_score, 1, IF Len(moves) < 12 THEN Len(moves) ELSE 12)
    IN  IF moves = <<>> THEN {}
        ELSE IF winners # <<>> THEN Range(winners)
        ELSE IF caps # <<>> THEN Range(caps)
        ELSE Range(top)

maybe_add_promo(move_str4, side, use_promo, promo_char) ==
    IF ~use_promo THEN move_str4
    ELSE IF \/ side = "W" /\ move_str4[4] = "8"
            \/ side = "B" /\ move_str4[4] = "1"
         THEN Append(move_str4, promo_char)
         ELSE move_str4

\* ------------------------------------------------------------------------
\* client.main: the lines of the protocol and the loop that answers them
\* ------------------------------------------------------------------------
Line_OK == <<"O", "K">>

Line_Ready == <<"R", "e", "a", "d", "y">>

Line_exit == <<"e", "x", "i", "t">>

Line_Reset == <<"R", "e", "s", "e", "t">>

Line_Begin == <<"B", "e", "g", "i", "n">>

Word_TournamentAccepted ==
    <<"T", "o", "u", "r", "n", "a", "m", "e", "n", "t",
      "A", "c", "c", "e", "p", "t", "e", "d">>

Word_GameOver == <<"G", "a", "m", "e", "O", "v", "e", "r">>

Word_Setup == <<"S", "e", "t", "u", "p", " ">>

Word_Time == <<"T", "i", "m", "e", " ">>

DIGITS == <<"0", "1", "2", "3", "4", "5", "6", "7", "8", "9">>

\* str.startswith
startswith(s, prefix) ==
    Len(s) >= Len(prefix) /\ SubSeq(s, 1, Len(prefix)) = prefix

RECURSIVE digits_value(_, _)
digits_value(t, n) ==
    IF n = 0 THEN 0
    ELSE 10 * digits_value(t, n - 1)
            + (CHOOSE d \in 0 .. 9 : DIGITS[d + 1] = t[n])

\* int(t) of a text of digits and letters: {} when it raises ValueError
int_str(t) ==
    IF t # <<>> /\ \A i \in 1 .. Len(t) : t[i] \in Range(DIGITS)
    THEN {digits_value(t, Len(t))}
    ELSE {}

parse_time_to_seconds(n, unit) ==
    IF unit = "sec" THEN n
    ELSE IF unit = "min" THEN n * 60
    ELSE IF n <= 30 THEN n * 60
    ELSE n

\* what main holds right after PawnBoard(diag_empty=args.diag_empty) and
\* the assignments before the first send_line; time_left_sec is {} for
\* None, else the seconds the last Time line gave and the number of
\* replies whose duration was taken off since
ClientObjects(args) ==
    [board |-> [grid |-> reset_to_start, diag_empty |-> args.diag_empty],
     my_side |-> {},
     time_left_sec |-> {},
     server_uses_promo |-> FALSE,
     args |-> args,
     status |-> "connected"]

use_promo(h) ==
    /\ h.args.promo # "off"
    /\ h.args.promo \in {"q", "Q"} \/ h.server_uses_promo

promo_char(h) == IF h.args.promo \in {"q", "Q"} THEN h.args.promo ELSE "q"

\* time_left_sec -= (time.perf_counter() - t0)
TimeTaken(t) == {[given |-> x.given, replies |-> x.replies + 1] : x \in t}

\* one pass of the loop of main has handled msg: the objects it leaves,
\* the lines it sent and the list pick_move got from legal_moves
Handled(h, sent, listed) == [h |-> h, sent |-> sent, listed |-> listed]

OnReset(h) ==
    {Handled([h EXCEPT !.my_side = {},
                       !.board.grid = reset_to_start,
                       !.time_left_sec = {}],
             <<Line_Ready>>, <<>>)}

\* an exception that load_from_setup raises ends main
OnSetup(h, msg) ==
    LET r == load_from_setup(Tail(split(msg))) IN
    IF r.raised
    THEN {Handled([h EXCEPT !.board.grid = r.grid, !.status = "raised"],
                  <<>>, <<>>)}
    ELSE {Handled([h EXCEPT !.board.grid = r.grid], <<Line_OK>>, <<>>)}

OnTime(h, msg) ==
    LET n == int_str(split(msg)[2])
        t == {[given |-> parse_time_to_seconds(v, h.args.time_unit),
               replies |-> 0] : v \in n}
    IN  {Handled([h EXCEPT !.time_left_sec = t], <<Line_OK>>, <<>>)}

OnBegin(h) ==
    LET listed == legal_moves(h.board, "W")
        picks == pick_move(h.board, "W")
        after(m) ==
            LET out == maybe_add_promo(to_str(m), "W", use_promo(h),
                                       promo_char(h))
            IN  Handled([h EXCEPT !.my_side = {"W"},
                                  !.board.grid =
                                      apply_move_str(h.board, out, "W").grid,
                                  !.time_left_sec = TimeTaken(h.time_left_sec)],
                        <<out>>, listed)
    IN  IF picks = {}
        THEN {Handled([h EXCEPT !.my_side = {"W"},
                                !.time_left_sec = TimeTaken(h.time_left_sec)],
                      <<Line_exit>>, listed)}
        ELSE {after(m) : m \in picks}

\* the loop `for _ in range(10)` of the reply with k passes left, mv_obj
\* being the move to try: the grid it leaves and the line it sends
RECURSIVE reply_tries(_, _, _, _, _)
reply_tries(h, board, side, mv_obj, k) ==
    IF k = 0 THEN {[grid |-> board.grid, line |-> Line_exit]}
    ELSE LET out == maybe_add_promo(to_str(mv_obj), side, use_promo(h),
                                    promo_char(h))
             r == apply_move_str(board, out, side)
             legals == legal_moves(board, side)
         IN  IF r.ok THEN {[grid |-> r.grid, line |-> out]}
             ELSE IF legals = <<>> THEN {[grid |-> board.grid, line |-> Line_exit]}
             ELSE UNION {reply_tries(h, board, side, m, k - 1) :
                            m \in Range(legals)}

OnMove(h, msg) ==
    LET h1 == [h EXCEPT !.server_uses_promo = (Len(msg) = 5) \/ @,
                        !.my_side = IF @ = {} THEN {"B"} ELSE @]
        side == CHOOSE c \in h1.my_side : TRUE
        opp == IF side = "W" THEN "B" ELSE "W"
        r == apply_move_str(h1.board, msg, opp)
        grid == IF r.ok THEN r.grid ELSE force_apply_move_str(h1.board, msg, opp)
        board == [h1.board EXCEPT !.grid = grid]
        listed == legal_moves(board, side)
        picks == pick_move(board, side)
    IN  IF picks = {}
        THEN {Handled([h1 EXCEPT !.board = board], <<Line_exit>>, listed)}
        ELSE {Handled([h1 EXCEPT !.board.grid = t.grid,
                                 !.time_left_sec = TimeTaken(h.time_left_sec)],
                      <<t.line>>, listed) :
                 t \in UNION {reply_tries(h1, board, side, m, 10) : m \in picks}}

\* the chain of tests of the loop, in its order
main_line(h, msg) ==
    IF startswith(msg, Word_TournamentAccepted) THEN {Handled(h, <<>>, <<>>)}
    ELSE IF msg = Line_Reset THEN OnReset(h)
    ELSE IF startswith(msg, Word_Setup) THEN OnSetup(h, msg)
    ELSE IF startswith(msg, Word_Time) THEN OnTime(h, msg)
    ELSE IF msg = Line_Begin THEN OnBegin(h)
    ELSE IF msg = Line_exit THEN {Handled(h, <<>>, <<>>)}
    ELSE IF startswith(msg, Word_GameOver)
         THEN {Handled([h EXCEPT !.my_side = {}], <<>>, <<>>)}
    ELSE IF is_move(msg) THEN OnMove(h, msg)
    ELSE {Handled(h, <<>>, <<>>)}

\* ------------------------------------------------------------------------
\* A run of client.main against a server that sends lines of a pool
\* ------------------------------------------------------------------------
\* the command lines the client is started with
ClientArgs ==
    {[diag_empty |-> FALSE, promo |-> "auto", time_unit |-> "auto"],
     [diag_empty |-> TRUE, promo |-> "auto", time_unit |-> "sec"],
     [diag_empty |-> FALSE, promo |-> "off", time_unit |-> "min"],
     [diag_empty |-> FALSE, promo |-> "Q", time_unit |-> "auto"]}

\* the token lists of the Setup lines: a pawn each, pawns one step from
\* their back ranks, pawns that can capture, a blocked pawn, tokens that
\* load_from_setup skips, and squares that are none
ClientSetups ==
    {<<<<"W", "a", "2">>, <<"B", "b", "7">>>>,
     <<<<"W", "a", "7">>, <<"B", "h", "2">>>>,
     <<<<"W", "b", "4">>, <<"B", "a", "5">>, <<"B", "c", "5">>>>,
     <<<<"W", "a", "4">>, <<"B", "a", "5">>>>,
     <<<<"W", "a">>, <<"x", "a", "2">>, <<"B", "h", "3">>>>,
     <<<<"W", "a", "2">>, <<"B", "a", "9">>>>,
     <<<<"W", "i", "2">>>>}

RECURSIVE join_words(_)
join_words(words) ==
    IF words = <<>> THEN <<>>
    ELSE <<" ">> \o Head(words) \o join_words(Tail(words))

SetupLine(tokens) == <<"S", "e", "t", "u", "p">> \o join_words(tokens)

\* the lines that do not depend on the game
FixedLines ==
    {Word_TournamentAccepted \o <<" ", "1">>,
     Line_Reset, Line_exit,
     Word_GameOver \o <<" ", "W">>,
     <<"T", "i", "m", "e", " ", "5">>,
     <<"T", "i", "m", "e", " ", "3", "0", "0">>,
     <<"T", "i", "m", "e", " ", "x">>,
     <<"T", "i", "m", "e">>,
     <<"S", "e", "t", "u", "p">>,
     <<"I", "l", "l", "e", "g", "a", "l", "M", "o", "v", "e">>,
     <<"a", "2", "a", "3", "x">>,
     <<>>}
    \cup {SetupLine(tokens) : tokens \in ClientSetups}

\* the moves the server passes on: those of the client's board for the
\* other side on the files up to MaxTextFile, with the promotion suffix
\* too when they reach the back rank, and two that no pawn can make
MoveLines(h) ==
    LET opp == IF h.my_side = {"W"} THEN "B" ELSE "W"
        ms == {m \in Range(legal_moves(h.board, opp)) : m.fx <= MaxTextFile}
    IN  {to_str(m) : m \in ms}
        \cup {Append(to_str(m), "q") : m \in {x \in ms : x.ty \in {0, 7}}}
        \cup {<<"h", "1", "h", "1">>, <<"a", "2", "a", "1", "q">>}

PawnsOn(grid) ==
    Cardinality({sq \in Squares : grid[sq \div 8][sq % 8] # {}})

\* the lines the server sends after n lines: on a board of more than
\* eight pawns it asks for a reply with the last line of the run only
ServerLines(h, n) ==
    IF PawnsOn(h.board.grid) > 8 /\ n + 1 < MaxLines
    THEN FixedLines
    ELSE FixedLines \cup {Line_Begin} \cup MoveLines(h)

ClientDone ==
    /\ UNCHANGED game
    /\ UNCHANGED <<TT, NODES, TT_HITS, TT_STORES, clock, pc, cur_depth, best,
                   max_depth, result, TT_others>>

\* io.send_line("OK") before the loop
ClientStart ==
    /\ heap.status = "connected"
    /\ heap' = [heap EXCEPT !.status = "running"]
    /\ op' = [kind |-> "start", n |-> 0, msg |-> <<>>, sent |-> <<Line_OK>>,
              listed |-> <<>>]
    /\ ClientDone

\* one pass of the loop: recv_line gives a line, stripped, and the chain
\* of tests handles it
ClientLine ==
    /\ heap.status = "running"
    /\ op.n < MaxLines
    /\ \E raw \in ServerLines(heap, op.n) :
          LET msg == strip(raw) IN
          \E r \in main_line(heap, msg) :
              /\ heap' = r.h
              /\ op' = [kind |-> "line", n |-> op.n + 1, msg |-> msg,
                        sent |-> r.sent, listed |-> r.listed]
    /\ ClientDone

\* recv_line gives None: the server has closed the connection
ClientEof ==
    /\ heap.status = "running"
    /\ heap' = [heap EXCEPT !.status = "closed"]
    /\ op' = [kind |-> "eof", n |-> op.n, msg |-> <<>>, sent |-> <<>>,
              listed |-> <<>>]
    /\ ClientDone

InitClient ==
    /\ pos = initial
    /\ prev = {}
    /\ mv = {}
    /\ ply = 0
    /\ TT = EmptyTT
    /\ NODES = 0
    /\ TT_HITS = 0
    /\ TT_STORES = 0
    /\ clock = NoDeadline
    /\ pc = "idle"
    /\ cur_depth = 1
    /\ best = {}
    /\ max_depth = 1
    /\ result = {}
    /\ TT_others = 0
    /\ op = NoOp
    /\ heap \in {ClientObjects(args) : args \in ClientArgs}

NextClient ==
    \/ ClientStart
    \/ ClientLine
    \/ ClientEof

SpecClient == InitClient /\ [][NextClient]_vars

\* ------------------------------------------------------------------------
\* Properties of the client's protocol
\* ------------------------------------------------------------------------
\* the line is one the loop takes for a move of the other side
MoveLine(msg) ==
    /\ is_move(msg)
    /\ msg \notin {Line_Reset, Line_Begin, Line_exit}
    /\ ~startswith(msg, Word_TournamentAccepted)
    /\ ~startswith(msg, Word_Setup)
    /\ ~startswith(msg, Word_Time)
    /\ ~startswith(msg, Word_GameOver)

\* the line names a move of the list
NamesListed(line, listed) ==
    \E m \in Range(listed) : move_core(line) = to_str(m)

\* C40: the client answers each server line with at most one line and in
\* lock-step: it sends OK first; for Reset it sends exactly Ready; for each
\* Setup and Time line exactly OK; for Begin and for each move of the other
\* side exactly one line, a move that PawnBoard.legal_moves lists for its own
\* side, or exit when the list is empty; for TournamentAccepted, exit,
\* GameOver and unknown lines nothing.  It plays white after Begin and black
\* when a move arrives while its side is unknown.
C40_LockStep ==
    [][/\ op'.kind = "start" => op'.sent = <<Line_OK>>
       /\ op'.kind = "line" =>
             LET msg == op'.msg
                 sent == op'.sent
                 answered == msg = Line_Begin \/ MoveLine(msg)
             IN  /\ Len(sent) <= 1
                 /\ msg = Line_Reset => sent = <<Line_Ready>>
                 /\ startswith(msg, Word_Setup) \/ startswith(msg, Word_Time)
                       => sent = <<Line_OK>>
                 /\ answered =>
                       /\ Len(sent) = 1
                       /\ heap'.my_side # {}
                       /\ \A side \in heap'.my_side :
                             op'.listed = legal_moves([heap.board EXCEPT !.grid =
                                 IF msg = Line_Begin THEN heap.board.grid
                                 ELSE force_apply_move_str(heap.board, msg,
                                         IF side = "W" THEN "B" ELSE "W")], side)
                       /\ IF op'.listed = <<>> THEN sent = <<Line_exit>>
                          ELSE NamesListed(sent[1], op'.listed)
                 /\ ~(\/ msg = Line_Reset
                      \/ startswith(msg, Word_Setup)
                      \/ startswith(msg, Word_Time)
                      \/ answered) => sent = <<>>
                 /\ msg = Line_Begin => heap'.my_side = {"W"}
                 /\ MoveLine(msg) /\ heap.my_side = {} => heap'.my_side = {"B"}]_vars

\* the Setup line holds a token of three characters, W or B first, whose
\* other two name no square
NamesNoSquare(msg) ==
    /\ startswith(msg, Word_Setup)
    /\ \E t \in Range(Tail(split(msg))) :
          /\ Len(t) = 3
          /\ t[1] \in {"W", "B"}
          /\ t[2] \notin Range(FILES) \/ t[3] \notin Range(RANKS)

\* main ends with a ValueError, having sent nothing, on exactly the Setup
\* lines that name no square; every other line is answered as C40 says
C40_ButBadSquares ==
    [][/\ op'.kind = "line" =>
             /\ heap'.status = "raised" <=> NamesNoSquare(op'.msg)
             /\ heap'.status = "raised" => op'.sent = <<>>
       /\ op'.kind = "start" => op'.sent = <<Line_OK>>
       /\ op'.kind = "line" /\ ~NamesNoSquare(op'.msg) =>
             LET msg == op'.msg
                 sent == op'.sent
                 answered == msg = Line_Begin \/ MoveLine(msg)
             IN  /\ Len(sent) <= 1
                 /\ msg = Line_Reset => sent = <<Line_Ready>>
                 /\ startswith(msg, Word_Setup) \/ startswith(msg, Word_Time)
                       => sent = <<Line_OK>>
                 /\ answered =>
                       /\ Len(sent) = 1
                       /\ IF op'.listed = <<>> THEN sent = <<Line_exit>>
                          ELSE NamesListed(sent[1], op'.listed)
                 /\ ~(\/ msg = Line_Reset
                      \/ startswith(msg, Word_Setup)
                      \/ startswith(msg, Word_Time)
                      \/ answered) => sent = <<>>
                 /\ msg = Line_Begin => heap'.my_side = {"W"}
                 /\ MoveLine(msg) /\ heap.my_side = {} => heap'.my_side = {"B"}]_vars

\* a Setup line that names no square has ended main without an answer
C40_Raised ==
    /\ op.kind = "line"
    /\ startswith(op.msg, Word_Setup)
    /\ heap.status = "raised"
    /\ op.sent = <<>>

\* a reply to a move of the other side that arrived while the side was
\* unknown, a reply with the promotion suffix, and an exit for want of moves
C40_RepliedBlack ==
    /\ op.kind = "line"
    /\ MoveLine(op.msg)
    /\ heap.my_side = {"B"}
    /\ Len(op.sent) = 1
    /\ Len(op.sent[1]) = 5

C40_NoMoves ==
    /\ op.kind = "line"
    /\ op.msg = Line_Begin
    /\ op.listed = <<>>
    /\ op.sent = <<Line_exit>>

====
